---- MODULE Spec2Model ----
(***************************************************************************)
(* Model of the NFSv3 / Sun RPC request builders of lawless-m/nfs-fuzzer   *)
(* (src/request_definitions/sunrpc.py, src/request_definitions/nfs3.py)    *)
(* and of the rendering of the trees they build.                           *)
(*                                                                         *)
(* Python values:                                                          *)
(*   - bytes are sequences of 0..255;                                      *)
(*   - str is a sequence of Unicode code points;                           *)
(*   - int is unbounded in Python, so an int is a record                   *)
(*     [neg, mag] with mag the big-endian base-256 magnitude without       *)
(*     leading zeros (values of 2^32 and above must be representable);     *)
(*   - an optional argument is [some, v] (None is some = FALSE);           *)
(*   - node names are strings, built by concatenation as the f-strings do. *)
(*                                                                         *)
(* The primitives DWord, QWord, Bytes, Static, Size, Block and Request are *)
(* boofuzz classes; the builders only instantiate them.  Their rendering   *)
(* is modelled as boofuzz does it: a bit field renders the low `width`     *)
(* bits of its value, bit by bit ((number >> x) & 1), a block renders its  *)
(* children in order, a Size renders math(len(render(target block))).      *)
(***************************************************************************)
EXTENDS Integers, Sequences, FiniteSets, TLC

VARIABLES pc, call, tree, out, err, ret, main, rs, fz, pair

vars == <<pc, call, tree, out, err, ret, main, rs, fz, pair>>

\* the state of a caller of the builders; of a run of main(); of one
\* render, step by step; of a fuzzed tree; of two trees in flight
builderVars == <<pc, call, tree, out, err, ret>>

---------------------------------------------------------------------------
(* Bounds of the model *)

\* longest file handle passed to a builder (beyond NFS3_FHSIZE on purpose)
MaxHandleLen == 66

\* largest argument given to xdr_pad_length directly
MaxPadArg == 40

\* builder calls made in one fuzzing run
MaxBuilds == 2

\* test cases main() is followed sending
MaxSends == 1

---------------------------------------------------------------------------
(* Python ints *)

RECURSIVE NatToBytes(_)
NatToBytes(n) == IF n = 0 THEN <<>> ELSE Append(NatToBytes(n \div 256), n % 256)

\* a Python int from a small integer
PyInt(n) == [neg |-> n < 0, mag |-> NatToBytes(IF n < 0 THEN 0 - n ELSE n)]

\* a Python int from its sign and big-endian magnitude
PyBig(neg, mag) == [neg |-> neg, mag |-> mag]

Zeros(n) == [i \in 1..n |-> 0]

\* magnitude seen as exactly n bytes (low n bytes, zero-extended on the left)
LowBytes(mag, n) ==
    IF Len(mag) >= n THEN SubSeq(mag, Len(mag) - n + 1, Len(mag))
    ELSE Zeros(n - Len(mag)) \o mag

\* b - 1 on an n-byte big-endian magnitude b > 0 (borrow from the right)
RECURSIVE DecBytes(_)
DecBytes(b) ==
    IF Len(b) = 0 THEN <<>>
    ELSE IF b[Len(b)] > 0
         THEN SubSeq(b, 1, Len(b) - 1) \o <<b[Len(b)] - 1>>
         ELSE DecBytes(SubSeq(b, 1, Len(b) - 1)) \o <<255>>

\* bit k (0 = least significant) of a byte
BitOfByte(b, k) == (b \div (2 ^ k)) % 2

\* bit x of a non-negative magnitude
MagBit(mag, x) ==
    LET idx == Len(mag) - (x \div 8)
    IN  IF idx < 1 THEN 0 ELSE BitOfByte(mag[idx], x % 8)

\* (number >> x) & 1 on a Python int: two's complement with infinite
\* sign extension, so for number < 0 it is the complement of bit x of
\* (|number| - 1)
ShiftAnd1(number, x) ==
    IF ~number.neg THEN MagBit(number.mag, x)
    ELSE 1 - MagBit(DecBytes(number.mag), x)


---------------------------------------------------------------------------
(* boofuzz bit fields: BitField._render_int with output_format "binary" *)

\* helpers.int_to_binary_string: the bits (number >> x) & 1 for
\* x = bit_width-1 .. 0, most significant first
int_to_binary_string(number, bit_width) ==
    [i \in 1..bit_width |-> ShiftAnd1(number, bit_width - i)]

\* helpers.binary_string_to_int on one 8-bit chunk
binary_string_to_int(chunk) ==
    chunk[1] * 128 + chunk[2] * 64 + chunk[3] * 32 + chunk[4] * 16
      + chunk[5] * 8 + chunk[6] * 4 + chunk[7] * 2 + chunk[8]

Reverse(s) == [i \in 1..Len(s) |-> s[Len(s) + 1 - i]]

\* the bit stream cut into bytes; little-endian reverses the bytes
render_int(value, bit_width, endian) ==
    LET bits == int_to_binary_string(value, bit_width)
        rendered == [i \in 1..(bit_width \div 8) |->
                        binary_string_to_int(SubSeq(bits, 8 * (i - 1) + 1, 8 * i))]
    IN  IF endian = "LITTLE_ENDIAN" THEN Reverse(rendered) ELSE rendered

---------------------------------------------------------------------------
(* Python str.encode("utf-8") *)

IsSurrogate(c) == c >= 55296 /\ c <= 57343

utf8_char(c) ==
    IF c < 128 THEN <<c>>
    ELSE IF c < 2048 THEN <<192 + (c \div 64), 128 + (c % 64)>>
    ELSE IF c < 65536
         THEN <<224 + (c \div 4096), 128 + ((c \div 64) % 64), 128 + (c % 64)>>
    ELSE <<240 + (c \div 262144), 128 + ((c \div 4096) % 64),
           128 + ((c \div 64) % 64), 128 + (c % 64)>>

RECURSIVE utf8_encode(_)
utf8_encode(s) ==
    IF Len(s) = 0 THEN <<>> ELSE utf8_char(Head(s)) \o utf8_encode(Tail(s))

\* encode raises UnicodeEncodeError on a lone surrogate
CanEncode(s) == \A i \in 1..Len(s) : ~IsSurrogate(s[i])

---------------------------------------------------------------------------
(* boofuzz nodes.  Every node is a record of the same shape. *)

None == [some |-> FALSE, v |-> <<>>]
Some(x) == [some |-> TRUE, v |-> x]

Node(kind, name) ==
    [kind |-> kind, name |-> name, default_value |-> PyInt(0),
     default_bytes |-> <<>>, width |-> 0, endian |-> "BIG_ENDIAN",
     size |-> 0, block_name |-> "", math |-> "identity",
     fuzzable |-> TRUE, children |-> <<>>]

NoNode == Node("none", "")

DWord(name, default_value, fuzzable) ==
    [Node("DWord", name) EXCEPT !.default_value = default_value,
                                !.width = 32, !.fuzzable = fuzzable]

QWord(name, default_value, fuzzable) ==
    [Node("QWord", name) EXCEPT !.default_value = default_value,
                                !.width = 64, !.fuzzable = fuzzable]

Bytes(name, default_value, size, fuzzable) ==
    [Node("Bytes", name) EXCEPT !.default_bytes = default_value,
                                !.size = size, !.fuzzable = fuzzable]

Static(name, default_value) ==
    [Node("Static", name) EXCEPT !.default_bytes = default_value,
                                 !.fuzzable = FALSE]

Size(name, block_name, length, math, fuzzable) ==
    [Node("Size", name) EXCEPT !.block_name = block_name, !.size = length,
                               !.width = 8 * length, !.math = math,
                               !.fuzzable = fuzzable]

Block(name, children) == [Node("Block", name) EXCEPT !.children = children]

Request(name, children) == [Node("Request", name) EXCEPT !.children = children]

\* a Python tuple of nodes returned by a builder (auth_none)
Tuple(children) == [Node("Tuple", "") EXCEPT !.children = children]

\* an exception raised while the builder ran
Raise(what) == Node("Raise", what)

\* all nodes of a tree, in document (pre-)order
RECURSIVE Nodes(_)
RECURSIVE NodesOfSeq(_)
Nodes(n) == <<n>> \o NodesOfSeq(n.children)
NodesOfSeq(cs) == IF Len(cs) = 0 THEN <<>> ELSE Nodes(Head(cs)) \o NodesOfSeq(Tail(cs))

\* an exception raised by a nested builder call propagates to the caller
Raised(n) == \E i \in 1..Len(Nodes(n)) : Nodes(n)[i].kind = "Raise"

RaisedWhat(n) ==
    LET ns == Nodes(n)
        i == CHOOSE j \in 1..Len(ns) :
                 ns[j].kind = "Raise" /\ \A k \in 1..(j - 1) : ns[k].kind # "Raise"
    IN  ns[i].name

\* the nodes of the tree carrying a given name
Named(root, name) ==
    LET ns == Nodes(root) IN {i \in 1..Len(ns) : ns[i].name = name}

\* Request.resolve_name: the one node of that name (an error otherwise)
CanResolve(root, name) == Cardinality(Named(root, name)) = 1

Resolve(root, name) == Nodes(root)[CHOOSE i \in Named(root, name) : TRUE]

---------------------------------------------------------------------------
(* src/request_definitions/sunrpc.py *)

MSG_TYPE_CALL == 0
RPC_VERSION == 2
PROG_PORTMAP == 100000
PROG_NFS == 100003
PROG_MOUNT == 100005
AUTH_NONE == 0
AUTH_SYS == 1

\* the padding without the outer modulo: 4 instead of 0 on aligned lengths
xdr_pad_length_NoOuterMod(length) == 4 - (length % 4)

xdr_pad_length(length) == (4 - (length % 4)) % 4

xdr_padded_bytes(data) ==
    LET pad == xdr_pad_length(Len(data))
    IN  data \o Zeros(pad)

\* bitwise or of two bytes
OrByte(a, b) ==
    LET bit(k) == IF BitOfByte(a, k) = 1 \/ BitOfByte(b, k) = 1 THEN 1 ELSE 0
    IN  bit(7) * 128 + bit(6) * 64 + bit(5) * 32 + bit(4) * 16
          + bit(3) * 8 + bit(2) * 4 + bit(1) * 2 + bit(0)

\* strip leading zero bytes of a magnitude
RECURSIVE Canon(_)
Canon(mag) ==
    IF Len(mag) > 0 /\ mag[1] = 0 THEN Canon(Tail(mag)) ELSE mag

\* Python a | b on non-negative ints
py_or(a, b) ==
    LET n == IF Len(a.mag) > Len(b.mag) THEN Len(a.mag) ELSE Len(b.mag)
        x == LowBytes(a.mag, n)
        y == LowBytes(b.mag, n)
    IN  PyBig(FALSE, Canon([i \in 1..n |-> OrByte(x[i], y[i])]))

\* the literal 0x80000000
LAST_FRAGMENT == PyBig(FALSE, <<128, 0, 0, 0>>)

\* the flag constant one hex digit short: 0x8000000 | x
record_mark_math_ShortFlag(x) == py_or(PyBig(FALSE, <<8, 0, 0, 0>>), x)

\* math=lambda x: 0x80000000 | x
record_mark_math(x) == py_or(LAST_FRAGMENT, x)

\* Size.math applied to the length of the target block
ApplyMath(math, x) ==
    IF math = "record_mark" THEN record_mark_math(x) ELSE x

tcp_record_mark(block_name, name) ==
    Size(name, block_name, 4, "record_mark", TRUE)

\* the verifier length left out
auth_none_NoVerfLength(name_prefix) ==
    Tuple(<< DWord(name_prefix \o "_cred_flavor", PyInt(AUTH_NONE), TRUE),
             DWord(name_prefix \o "_cred_length", PyInt(0), TRUE),
             DWord(name_prefix \o "_verf_flavor", PyInt(AUTH_NONE), TRUE) >>)

auth_none(name_prefix) ==
    Tuple(<< DWord(name_prefix \o "_cred_flavor", PyInt(AUTH_NONE), TRUE),
             DWord(name_prefix \o "_cred_length", PyInt(0), TRUE),
             DWord(name_prefix \o "_verf_flavor", PyInt(AUTH_NONE), TRUE),
             DWord(name_prefix \o "_verf_length", PyInt(0), TRUE) >>)

\* the machine name stored without its XDR fill
auth_sys_block_UnpaddedMachine(name, machine_name, uid, gid) ==
    IF ~CanEncode(machine_name) THEN Raise("UnicodeEncodeError")
    ELSE
    LET name_bytes == utf8_encode(machine_name)
    IN  Block(name,
          << DWord(name \o "_cred_flavor", PyInt(AUTH_SYS), TRUE),
             Size(name \o "_cred_length", name \o "_cred_body", 4, "identity", TRUE),
             Block(name \o "_cred_body",
               << DWord(name \o "_stamp", PyInt(0), TRUE),
                  DWord(name \o "_machine_len", PyInt(Len(name_bytes)), TRUE),
                  Static(name \o "_machine", name_bytes),
                  DWord(name \o "_uid", uid, TRUE),
                  DWord(name \o "_gid", gid, TRUE),
                  DWord(name \o "_aux_gid_count", PyInt(0), TRUE) >>),
             DWord(name \o "_verf_flavor", PyInt(AUTH_NONE), TRUE),
             DWord(name \o "_verf_length", PyInt(0), TRUE) >>)

auth_sys_block(name, machine_name, uid, gid) ==
    IF ~CanEncode(machine_name) THEN Raise("UnicodeEncodeError")
    ELSE
    LET name_bytes == utf8_encode(machine_name)
        name_padded_len == Len(name_bytes) + xdr_pad_length(Len(name_bytes))
    IN  Block(name,
          << DWord(name \o "_cred_flavor", PyInt(AUTH_SYS), TRUE),
             Size(name \o "_cred_length", name \o "_cred_body", 4, "identity", TRUE),
             Block(name \o "_cred_body",
               << DWord(name \o "_stamp", PyInt(0), TRUE),
                  DWord(name \o "_machine_len", PyInt(Len(name_bytes)), TRUE),
                  Static(name \o "_machine", xdr_padded_bytes(name_bytes)),
                  DWord(name \o "_uid", uid, TRUE),
                  DWord(name \o "_gid", gid, TRUE),
                  DWord(name \o "_aux_gid_count", PyInt(0), TRUE) >>),
             DWord(name \o "_verf_flavor", PyInt(AUTH_NONE), TRUE),
             DWord(name \o "_verf_length", PyInt(0), TRUE) >>)

\* the default machine_name "fuzzer"
STR_fuzzer == <<102, 117, 122, 122, 101, 114>>

\* the procedure arguments spliced in before the authentication
rpc_call_request_ArgsBeforeAuth(name, program, version, procedure, args_children, auth_type, xid) ==
    LET auth_children ==
            IF auth_type = "sys"
            THEN <<auth_sys_block(name \o "_auth", STR_fuzzer, PyInt(0), PyInt(0))>>
            ELSE auth_none(name \o "_auth").children
    IN  Request(name,
          << tcp_record_mark(name \o "_rpc_message", name \o "_record_mark"),
             Block(name \o "_rpc_message",
               << DWord(name \o "_xid", xid, TRUE),
                  DWord(name \o "_msg_type", PyInt(MSG_TYPE_CALL), TRUE),
                  DWord(name \o "_rpc_version", PyInt(RPC_VERSION), TRUE),
                  DWord(name \o "_program", program, TRUE),
                  DWord(name \o "_version", version, TRUE),
                  DWord(name \o "_procedure", procedure, TRUE) >>
               \o args_children \o auth_children) >>)

rpc_call_request(name, program, version, procedure, args_children, auth_type, xid) ==
    LET auth_children ==
            IF auth_type = "sys"
            THEN <<auth_sys_block(name \o "_auth", STR_fuzzer, PyInt(0), PyInt(0))>>
            ELSE auth_none(name \o "_auth").children
    IN  Request(name,
          << tcp_record_mark(name \o "_rpc_message", name \o "_record_mark"),
             Block(name \o "_rpc_message",
               << DWord(name \o "_xid", xid, TRUE),
                  DWord(name \o "_msg_type", PyInt(MSG_TYPE_CALL), TRUE),
                  DWord(name \o "_rpc_version", PyInt(RPC_VERSION), TRUE),
                  DWord(name \o "_program", program, TRUE),
                  DWord(name \o "_version", version, TRUE),
                  DWord(name \o "_procedure", procedure, TRUE) >>
               \o auth_children \o args_children) >>)

\* rpc_call_block: the record mark and the message block, as a tuple
rpc_call_block(name, program, version, procedure, args_children, auth_type, xid) ==
    LET auth_children ==
            IF auth_type = "sys"
            THEN <<auth_sys_block(name \o "_auth", STR_fuzzer, PyInt(0), PyInt(0))>>
            ELSE auth_none(name \o "_auth").children
    IN  Tuple(
          << tcp_record_mark(name \o "_rpc_message", name \o "_record_mark"),
             Block(name \o "_rpc_message",
               << DWord(name \o "_xid", xid, TRUE),
                  DWord(name \o "_msg_type", PyInt(MSG_TYPE_CALL), TRUE),
                  DWord(name \o "_rpc_version", PyInt(RPC_VERSION), TRUE),
                  DWord(name \o "_program", program, TRUE),
                  DWord(name \o "_version", version, TRUE),
                  DWord(name \o "_procedure", procedure, TRUE) >>
               \o auth_children \o args_children) >>)

---------------------------------------------------------------------------
(* Rendering (boofuzz): Request.render / Block.render concatenate the     *)
(* children in order; Size.render measures the rendered target block.     *)
(* Bytes and Static render their default value; the builders always pass  *)
(* size = len(default_value), so the size of a Bytes changes nothing.     *)

RECURSIVE Render(_, _)
RECURSIVE RenderSeq(_, _)
Render(n, root) ==
    IF n.kind \in {"DWord", "QWord"}
    THEN render_int(n.default_value, n.width, n.endian)
    ELSE IF n.kind \in {"Bytes", "Static"} THEN n.default_bytes
    ELSE IF n.kind = "Size"
    THEN render_int(ApplyMath(n.math,
                              PyInt(Len(Render(Resolve(root, n.block_name), root)))),
                    n.width, n.endian)
    ELSE RenderSeq(n.children, root)
RenderSeq(cs, root) ==
    IF Len(cs) = 0 THEN <<>> ELSE Render(Head(cs), root) \o RenderSeq(Tail(cs), root)

\* every Size of the tree names exactly one node of the tree
SizesResolve(root) ==
    \A i \in 1..Len(Nodes(root)) :
        Nodes(root)[i].kind = "Size" => CanResolve(root, Nodes(root)[i].block_name)

---------------------------------------------------------------------------
(* src/request_definitions/nfs3.py *)

NFS_V3 == 3
NFSPROC3_NULL == 0
NFSPROC3_GETATTR == 1
NFSPROC3_LOOKUP == 3
NFSPROC3_ACCESS == 4
NFSPROC3_READLINK == 5
NFSPROC3_READ == 6
NFSPROC3_WRITE == 7
NFSPROC3_CREATE == 8
NFSPROC3_MKDIR == 9
NFSPROC3_REMOVE == 12
NFSPROC3_RMDIR == 13
NFSPROC3_RENAME == 14
NFSPROC3_READDIR == 16
NFSPROC3_READDIRPLUS == 17
NFSPROC3_FSSTAT == 18
NFSPROC3_FSINFO == 19
NFSPROC3_PATHCONF == 20
NFSPROC3_COMMIT == 21
UNCHECKED == 0
UNSTABLE == 0
FILE_SYNC == 2
NFS3_FHSIZE == 64

\* bytes * n
RECURSIVE Repeat(_, _)
Repeat(b, n) == IF n = 0 THEN <<>> ELSE b \o Repeat(b, n - 1)

\* b"\xde\xad\xbe\xef" * 8
DEFAULT_HANDLE == Repeat(<<222, 173, 190, 239>>, 8)

\* the length field taken from the padded data
fhandle3_PaddedLength(name, handle_data) ==
    LET hd == IF ~handle_data.some THEN DEFAULT_HANDLE ELSE handle_data.v
        padded == xdr_padded_bytes(hd)
    IN  Block(name,
          << DWord(name \o "_length", PyInt(Len(padded)), TRUE),
             Bytes(name \o "_data", padded, Len(padded), TRUE) >>)

fhandle3(name, handle_data) ==
    LET hd == IF ~handle_data.some THEN DEFAULT_HANDLE ELSE handle_data.v
        padded == xdr_padded_bytes(hd)
    IN  Block(name,
          << DWord(name \o "_length", PyInt(Len(hd)), TRUE),
             Bytes(name \o "_data", padded, Len(padded), TRUE) >>)

\* the padding taken from the number of characters of the name
filename3_CharCount(name, filename) ==
    IF ~CanEncode(filename) THEN Raise("UnicodeEncodeError")
    ELSE
    LET name_bytes == utf8_encode(filename)
        padded == name_bytes \o Zeros(xdr_pad_length(Len(filename)))
    IN  Block(name,
          << DWord(name \o "_length", PyInt(Len(name_bytes)), TRUE),
             Bytes(name \o "_data", padded, Len(padded), TRUE) >>)

filename3(name, filename) ==
    IF ~CanEncode(filename) THEN Raise("UnicodeEncodeError")
    ELSE
    LET name_bytes == utf8_encode(filename)
        padded == xdr_padded_bytes(name_bytes)
    IN  Block(name,
          << DWord(name \o "_length", PyInt(Len(name_bytes)), TRUE),
             Bytes(name \o "_data", padded, Len(padded), TRUE) >>)

\* the name placed before the directory handle
dirop3_NameFirst(name, handle_data, filename) ==
    Block(name,
      << filename3(name \o "_name", filename),
         fhandle3(name \o "_dir_handle", handle_data) >>)

dirop3(name, handle_data, filename) ==
    Block(name,
      << fhandle3(name \o "_dir_handle", handle_data),
         filename3(name \o "_name", filename) >>)

\* the NULL call with AUTH_SYS credentials
nfs3_null_AuthSys ==
    rpc_call_request("NFS3-NULL", PyInt(PROG_NFS), PyInt(NFS_V3),
                     PyInt(NFSPROC3_NULL), <<>>, "sys", PyInt(1))

nfs3_null ==
    rpc_call_request("NFS3-NULL", PyInt(PROG_NFS), PyInt(NFS_V3),
                     PyInt(NFSPROC3_NULL), <<>>, "none", PyInt(1))

nfs3_getattr(handle_data) ==
    rpc_call_request("NFS3-GETATTR", PyInt(PROG_NFS), PyInt(NFS_V3),
                     PyInt(NFSPROC3_GETATTR),
                     <<fhandle3("NFS3-GETATTR_fhandle", handle_data)>>,
                     "none", PyInt(1))

nfs3_lookup(dir_handle, filename) ==
    rpc_call_request("NFS3-LOOKUP", PyInt(PROG_NFS), PyInt(NFS_V3),
                     PyInt(NFSPROC3_LOOKUP),
                     <<dirop3("NFS3-LOOKUP_what", dir_handle, filename)>>,
                     "none", PyInt(1))

nfs3_access(handle_data, access_bits) ==
    rpc_call_request("NFS3-ACCESS", PyInt(PROG_NFS), PyInt(NFS_V3),
                     PyInt(NFSPROC3_ACCESS),
                     << fhandle3("NFS3-ACCESS_fhandle", handle_data),
                        DWord("NFS3-ACCESS_access", access_bits, TRUE) >>,
                     "none", PyInt(1))

nfs3_read(handle_data, offset, count) ==
    rpc_call_request("NFS3-READ", PyInt(PROG_NFS), PyInt(NFS_V3),
                     PyInt(NFSPROC3_READ),
                     << fhandle3("NFS3-READ_fhandle", handle_data),
                        QWord("NFS3-READ_offset", offset, TRUE),
                        DWord("NFS3-READ_count", count, TRUE) >>,
                     "none", PyInt(1))

\* the count field forced to the length of the data
nfs3_write_CountFromData(handle_data, offset, count, stable, data) ==
    LET data_padded == xdr_padded_bytes(data)
    IN  rpc_call_request("NFS3-WRITE", PyInt(PROG_NFS), PyInt(NFS_V3),
                     PyInt(NFSPROC3_WRITE),
                     << fhandle3("NFS3-WRITE_fhandle", handle_data),
                        QWord("NFS3-WRITE_offset", offset, TRUE),
                        DWord("NFS3-WRITE_count", PyInt(Len(data)), TRUE),
                        DWord("NFS3-WRITE_stable", stable, TRUE),
                        DWord("NFS3-WRITE_data_length", PyInt(Len(data)), TRUE),
                        Bytes("NFS3-WRITE_data", data_padded, Len(data_padded), TRUE) >>,
                     "none", PyInt(1))

nfs3_write(handle_data, offset, count, stable, data) ==
    LET data_padded == xdr_padded_bytes(data)
    IN  rpc_call_request("NFS3-WRITE", PyInt(PROG_NFS), PyInt(NFS_V3),
                     PyInt(NFSPROC3_WRITE),
                     << fhandle3("NFS3-WRITE_fhandle", handle_data),
                        QWord("NFS3-WRITE_offset", offset, TRUE),
                        DWord("NFS3-WRITE_count", count, TRUE),
                        DWord("NFS3-WRITE_stable", stable, TRUE),
                        DWord("NFS3-WRITE_data_length", PyInt(Len(data)), TRUE),
                        Bytes("NFS3-WRITE_data", data_padded, Len(data_padded), TRUE) >>,
                     "none", PyInt(1))

nfs3_readdir(handle_data, cookie, cookieverf, count) ==
    LET cv == IF ~cookieverf.some THEN Zeros(8) ELSE cookieverf.v
    IN  rpc_call_request("NFS3-READDIR", PyInt(PROG_NFS), PyInt(NFS_V3),
                     PyInt(NFSPROC3_READDIR),
                     << fhandle3("NFS3-READDIR_dir", handle_data),
                        QWord("NFS3-READDIR_cookie", cookie, TRUE),
                        Bytes("NFS3-READDIR_cookieverf", cv, 8, TRUE),
                        DWord("NFS3-READDIR_count", count, TRUE) >>,
                     "none", PyInt(1))

nfs3_readdirplus(handle_data, cookie, cookieverf, dircount, maxcount) ==
    LET cv == IF ~cookieverf.some THEN Zeros(8) ELSE cookieverf.v
    IN  rpc_call_request("NFS3-READDIRPLUS", PyInt(PROG_NFS), PyInt(NFS_V3),
                     PyInt(NFSPROC3_READDIRPLUS),
                     << fhandle3("NFS3-READDIRPLUS_dir", handle_data),
                        QWord("NFS3-READDIRPLUS_cookie", cookie, TRUE),
                        Bytes("NFS3-READDIRPLUS_cookieverf", cv, 8, TRUE),
                        DWord("NFS3-READDIRPLUS_dircount", dircount, TRUE),
                        DWord("NFS3-READDIRPLUS_maxcount", maxcount, TRUE) >>,
                     "none", PyInt(1))

nfs3_fsstat(handle_data) ==
    rpc_call_request("NFS3-FSSTAT", PyInt(PROG_NFS), PyInt(NFS_V3),
                     PyInt(NFSPROC3_FSSTAT),
                     <<fhandle3("NFS3-FSSTAT_fsroot", handle_data)>>,
                     "none", PyInt(1))

\* FSINFO copied from FSSTAT with the procedure number left unchanged
nfs3_fsinfo_CopiedProcedure(handle_data) ==
    rpc_call_request("NFS3-FSINFO", PyInt(PROG_NFS), PyInt(NFS_V3),
                     PyInt(NFSPROC3_FSSTAT),
                     <<fhandle3("NFS3-FSINFO_fsroot", handle_data)>>,
                     "none", PyInt(1))

nfs3_fsinfo(handle_data) ==
    rpc_call_request("NFS3-FSINFO", PyInt(PROG_NFS), PyInt(NFS_V3),
                     PyInt(NFSPROC3_FSINFO),
                     <<fhandle3("NFS3-FSINFO_fsroot", handle_data)>>,
                     "none", PyInt(1))

nfs3_pathconf(handle_data) ==
    rpc_call_request("NFS3-PATHCONF", PyInt(PROG_NFS), PyInt(NFS_V3),
                     PyInt(NFSPROC3_PATHCONF),
                     <<fhandle3("NFS3-PATHCONF_object", handle_data)>>,
                     "none", PyInt(1))

nfs3_commit(handle_data, offset, count) ==
    rpc_call_request("NFS3-COMMIT", PyInt(PROG_NFS), PyInt(NFS_V3),
                     PyInt(NFSPROC3_COMMIT),
                     << fhandle3("NFS3-COMMIT_fhandle", handle_data),
                        QWord("NFS3-COMMIT_offset", offset, TRUE),
                        DWord("NFS3-COMMIT_count", count, TRUE) >>,
                     "none", PyInt(1))

\* sattr3 with every field "don't set": six zero words
sattr3_unset(prefix) ==
    << DWord(prefix \o "_set_mode", PyInt(0), TRUE),
       DWord(prefix \o "_set_uid", PyInt(0), TRUE),
       DWord(prefix \o "_set_gid", PyInt(0), TRUE),
       DWord(prefix \o "_set_size", PyInt(0), TRUE),
       DWord(prefix \o "_set_atime", PyInt(0), TRUE),
       DWord(prefix \o "_set_mtime", PyInt(0), TRUE) >>

nfs3_create(dir_handle, filename, create_mode) ==
    rpc_call_request("NFS3-CREATE", PyInt(PROG_NFS), PyInt(NFS_V3),
                     PyInt(NFSPROC3_CREATE),
                     << dirop3("NFS3-CREATE_where", dir_handle, filename),
                        DWord("NFS3-CREATE_mode", create_mode, TRUE) >>
                       \o sattr3_unset("NFS3-CREATE"),
                     "none", PyInt(1))

nfs3_remove(dir_handle, filename) ==
    rpc_call_request("NFS3-REMOVE", PyInt(PROG_NFS), PyInt(NFS_V3),
                     PyInt(NFSPROC3_REMOVE),
                     <<dirop3("NFS3-REMOVE_object", dir_handle, filename)>>,
                     "none", PyInt(1))

nfs3_mkdir(dir_handle, dirname) ==
    rpc_call_request("NFS3-MKDIR", PyInt(PROG_NFS), PyInt(NFS_V3),
                     PyInt(NFSPROC3_MKDIR),
                     <<dirop3("NFS3-MKDIR_where", dir_handle, dirname)>>
                       \o sattr3_unset("NFS3-MKDIR"),
                     "none", PyInt(1))

nfs3_rmdir(dir_handle, dirname) ==
    rpc_call_request("NFS3-RMDIR", PyInt(PROG_NFS), PyInt(NFS_V3),
                     PyInt(NFSPROC3_RMDIR),
                     <<dirop3("NFS3-RMDIR_object", dir_handle, dirname)>>,
                     "none", PyInt(1))

\* both directory arguments built under the same name
nfs3_rename_SamePrefix(from_dir_handle, from_name, to_dir_handle, to_name) ==
    rpc_call_request("NFS3-RENAME", PyInt(PROG_NFS), PyInt(NFS_V3),
                     PyInt(NFSPROC3_RENAME),
                     << dirop3("NFS3-RENAME_from", from_dir_handle, from_name),
                        dirop3("NFS3-RENAME_from", to_dir_handle, to_name) >>,
                     "none", PyInt(1))

nfs3_rename(from_dir_handle, from_name, to_dir_handle, to_name) ==
    rpc_call_request("NFS3-RENAME", PyInt(PROG_NFS), PyInt(NFS_V3),
                     PyInt(NFSPROC3_RENAME),
                     << dirop3("NFS3-RENAME_from", from_dir_handle, from_name),
                        dirop3("NFS3-RENAME_to", to_dir_handle, to_name) >>,
                     "none", PyInt(1))

nfs3_readlink(handle_data) ==
    rpc_call_request("NFS3-READLINK", PyInt(PROG_NFS), PyInt(NFS_V3),
                     PyInt(NFSPROC3_READLINK),
                     <<fhandle3("NFS3-READLINK_symlink", handle_data)>>,
                     "none", PyInt(1))

\* the default names of the builders: "testfile", "newfile", "newdir",
\* "testdir", "oldname", "newname"
STR_testfile == <<116, 101, 115, 116, 102, 105, 108, 101>>
STR_newfile == <<110, 101, 119, 102, 105, 108, 101>>
STR_newdir == <<110, 101, 119, 100, 105, 114>>
STR_testdir == <<116, 101, 115, 116, 100, 105, 114>>
STR_oldname == <<111, 108, 100, 110, 97, 109, 101>>
STR_newname == <<110, 101, 119, 110, 97, 109, 101>>

\* a Python list of requests
List(items) == [Node("List", "") EXCEPT !.children = items]

\* every builder called with its default arguments
get_all_nfs3_requests ==
    List(<< nfs3_null,
            nfs3_getattr(None),
            nfs3_lookup(None, STR_testfile),
            nfs3_access(None, PyInt(63)),
            nfs3_readlink(None),
            nfs3_read(None, PyInt(0), PyInt(4096)),
            nfs3_write(None, PyInt(0), PyInt(0), PyInt(FILE_SYNC), <<>>),
            nfs3_create(None, STR_newfile, PyInt(UNCHECKED)),
            nfs3_mkdir(None, STR_newdir),
            nfs3_remove(None, STR_testfile),
            nfs3_rmdir(None, STR_testdir),
            nfs3_rename(None, STR_oldname, None, STR_newname),
            nfs3_readdir(None, PyInt(0), None, PyInt(4096)),
            nfs3_readdirplus(None, PyInt(0), None, PyInt(4096), PyInt(8192)),
            nfs3_fsstat(None),
            nfs3_fsinfo(None),
            nfs3_pathconf(None),
            nfs3_commit(None, PyInt(0), PyInt(0)) >>)

---------------------------------------------------------------------------
(* src/examples/nfs3.py: the procedure table *)

\* the elements of a sequence
Range(s) == {s[i] : i \in 1..Len(s)}

\* the keys of PROCEDURES, in the order of the dict
PROCEDURE_KEYS ==
    << "NULL", "GETATTR", "LOOKUP", "ACCESS", "READLINK", "READ", "WRITE",
       "CREATE", "MKDIR", "REMOVE", "RMDIR", "RENAME", "READDIR",
       "READDIRPLUS", "FSSTAT", "FSINFO", "PATHCONF", "COMMIT" >>

\* PROCEDURES[name](): the builder registered under name, called with its
\* default arguments
PROCEDURES(name) ==
    CASE name = "NULL" -> nfs3_null
      [] name = "GETATTR" -> nfs3_getattr(None)
      [] name = "LOOKUP" -> nfs3_lookup(None, STR_testfile)
      [] name = "ACCESS" -> nfs3_access(None, PyInt(63))
      [] name = "READLINK" -> nfs3_readlink(None)
      [] name = "READ" -> nfs3_read(None, PyInt(0), PyInt(4096))
      [] name = "WRITE" -> nfs3_write(None, PyInt(0), PyInt(0), PyInt(FILE_SYNC), <<>>)
      [] name = "CREATE" -> nfs3_create(None, STR_newfile, PyInt(UNCHECKED))
      [] name = "MKDIR" -> nfs3_mkdir(None, STR_newdir)
      [] name = "REMOVE" -> nfs3_remove(None, STR_testfile)
      [] name = "RMDIR" -> nfs3_rmdir(None, STR_testdir)
      [] name = "RENAME" -> nfs3_rename(None, STR_oldname, None, STR_newname)
      [] name = "READDIR" -> nfs3_readdir(None, PyInt(0), None, PyInt(4096))
      [] name = "READDIRPLUS" ->
             nfs3_readdirplus(None, PyInt(0), None, PyInt(4096), PyInt(8192))
      [] name = "FSSTAT" -> nfs3_fsstat(None)
      [] name = "FSINFO" -> nfs3_fsinfo(None)
      [] name = "PATHCONF" -> nfs3_pathconf(None)
      [] name = "COMMIT" -> nfs3_commit(None, PyInt(0), PyInt(0))

DEFAULT_PROCEDURES ==
    <<"NULL", "GETATTR", "LOOKUP", "ACCESS", "FSSTAT", "FSINFO", "PATHCONF">>

---------------------------------------------------------------------------
(* Arguments the callers pass *)

HANDLE_PATTERN == <<222, 173, 190, 239>>

\* a handle of n bytes: all zero bytes, or the 0xdeadbeef pattern
MkHandle(n, fill) ==
    [i \in 1..n |-> IF fill = "zero" THEN 0 ELSE HANDLE_PATTERN[((i - 1) % 4) + 1]]

AllHandles ==
    {None} \cup {Some(MkHandle(n, f)) : n \in 0..MaxHandleLen, f \in {"zero", "pattern"}}

SomeHandles ==
    {None, Some(MkHandle(0, "zero")), Some(MkHandle(7, "zero")),
     Some(MkHandle(MaxHandleLen, "pattern"))}

\* the names the callers pass:

\* "testfile", "", "e-acute", "a-euro-b", "g-clef x", and a lone surrogate
Strings ==
    {STR_testfile, <<>>, <<233>>, <<97, 8364, 98>>, <<119070, 120>>, <<55296>>}

\* 0, 10, 4096, 2^32-1, 2^32, 2^32+10, -1
Counts ==
    {PyInt(0), PyInt(10), PyInt(4096), PyBig(FALSE, <<255, 255, 255, 255>>),
     PyBig(FALSE, <<1, 0, 0, 0, 0>>), PyBig(FALSE, <<1, 0, 0, 0, 10>>), PyInt(-1)}

\* 0, 2^64-1, 2^64+5
Offsets ==
    {PyInt(0), PyBig(FALSE, <<255, 255, 255, 255, 255, 255, 255, 255>>),
     PyBig(FALSE, <<1, 0, 0, 0, 0, 0, 0, 0, 5>>)}

\* 1, 0xdeadbeef, 2^32+1
Xids ==
    {PyInt(1), PyBig(FALSE, <<222, 173, 190, 239>>), PyBig(FALSE, <<1, 0, 0, 0, 1>>)}

\* b"", 7 bytes, 8 bytes
Datas == {<<>>, <<1, 2, 3, 4, 5, 6, 7>>, <<1, 2, 3, 4, 5, 6, 7, 0>>}

\* rendered lengths of a target block: the powers of two below 2^31 and
\* their predecessors, and the length of the NULL call
BlockLengths ==
    {0, 40, 2147483647} \cup {2 ^ k : k \in 0..30} \cup {(2 ^ k) - 1 : k \in 1..30}

Prefixes == {"auth", "NFS3-NULL_auth", "x"}

NoCall ==
    [fn |-> "", name |-> "", handle_data |-> None, filename |-> <<>>,
     offset |-> PyInt(0), count |-> PyInt(0), stable |-> PyInt(0),
     data |-> <<>>, access_bits |-> PyInt(0), auth_type |-> "none",
     xid |-> PyInt(1), machine_name |-> <<>>, uid |-> PyInt(0),
     gid |-> PyInt(0), n |-> 0, cookie |-> PyInt(0), cookieverf |-> None,
     dircount |-> PyInt(0), maxcount |-> PyInt(0), create_mode |-> PyInt(0),
     to_dir_handle |-> None, to_name |-> <<>>, block_name |-> ""]

---------------------------------------------------------------------------
(* The state machine: a caller calls one builder, renders what it got,    *)
(* and drops it.                                                          *)

\* main() not yet started
MainStart ==
    [pc |-> "start",
     args |-> [all_procedures |-> FALSE, procedures |-> None,
               test_connection |-> FALSE],
     procedure_names |-> <<>>, target |-> FALSE, session |-> FALSE,
     looked |-> <<>>, requests |-> <<>>, connected |-> 0,
     packet |-> <<>>, fuzzing |-> FALSE, exit |-> "", message |-> "",
     sent |-> <<>>]

\* no render under way
RenderIdle ==
    [pc |-> "idle", root |-> NoNode, stack |-> <<>>, out |-> <<>>, sized |-> <<>>]

\* no tree under fuzzing
NoRender == [has |-> FALSE, gen |-> 0, call |-> "", m |-> None, out |-> <<>>]

FuzzIdle ==
    [pc |-> "idle", call |-> "", tree |-> NoNode, nbuilt |-> 0, m |-> None,
     last |-> NoRender, prev |-> NoRender]

\* no tree in flight
EmptySlot == [pc |-> "empty", call |-> "", tree |-> NoNode, ids |-> {}, out |-> <<>>]

PairIdle == [slots |-> <<EmptySlot, EmptySlot>>, next |-> 0, ncalls |-> 0, log |-> <<>>]

Init ==
    /\ pc = "idle"
    /\ call = NoCall
    /\ tree = NoNode
    /\ out = <<>>
    /\ err = "none"
    /\ ret = 0
    /\ main = MainStart
    /\ rs = RenderIdle
    /\ fz = FuzzIdle
    /\ pair = PairIdle

\* a builder call with arguments c returning (or raising) t
Returns(c, t) ==
    /\ pc = "idle"
    /\ call' = c
    /\ out' = <<>>
    /\ ret' = 0
    /\ IF Raised(t)
       THEN pc' = "raised" /\ err' = RaisedWhat(t) /\ tree' = NoNode
       ELSE pc' = "built" /\ err' = "none" /\ tree' = t
    /\ UNCHANGED <<main, rs, fz, pair>>

Call_xdr_pad_length ==
    \E n \in 0..MaxPadArg :
        /\ pc = "idle"
        /\ call' = [NoCall EXCEPT !.fn = "xdr_pad_length", !.n = n]
        /\ ret' = xdr_pad_length(n)
        /\ pc' = "returned"
        /\ UNCHANGED <<tree, out, err, main, rs, fz, pair>>

Call_tcp_record_mark ==
    \E p \in Prefixes :
        Returns([NoCall EXCEPT !.fn = "tcp_record_mark", !.name = p \o "_record_mark"],
                tcp_record_mark(p \o "_rpc_message", p \o "_record_mark"))

Call_auth_none ==
    \E p \in Prefixes :
        Returns([NoCall EXCEPT !.fn = "auth_none", !.name = p], auth_none(p))

Call_auth_sys_block ==
    \E p \in {"auth_sys"}, m \in Strings \cup {STR_fuzzer}, u \in {PyInt(0), PyInt(1000)} :
        Returns([NoCall EXCEPT !.fn = "auth_sys_block", !.name = p,
                               !.machine_name = m, !.uid = u, !.gid = u],
                auth_sys_block(p, m, u, u))

Call_fhandle3 ==
    \E h \in AllHandles :
        Returns([NoCall EXCEPT !.fn = "fhandle3", !.name = "fh", !.handle_data = h],
                fhandle3("fh", h))

Call_filename3 ==
    \E f \in Strings :
        Returns([NoCall EXCEPT !.fn = "filename3", !.name = "fn", !.filename = f],
                filename3("fn", f))

Call_dirop3 ==
    \E h \in SomeHandles, f \in Strings :
        Returns([NoCall EXCEPT !.fn = "dirop3", !.name = "what",
                               !.handle_data = h, !.filename = f],
                dirop3("what", h, f))

Call_rpc_call_request ==
    \E a \in {"none", "sys"}, x \in Xids, h \in {None, Some(MkHandle(5, "zero"))} :
        Returns([NoCall EXCEPT !.fn = "rpc_call_request", !.name = "RPC-CALL",
                               !.auth_type = a, !.xid = x, !.handle_data = h],
                rpc_call_request("RPC-CALL", PyInt(PROG_MOUNT), PyInt(NFS_V3),
                                 PyInt(1), <<fhandle3("RPC-CALL_fh", h)>>, a, x))

Call_nfs3_null ==
    Returns([NoCall EXCEPT !.fn = "nfs3_null", !.name = "NFS3-NULL"], nfs3_null)

Call_nfs3_getattr ==
    \E h \in SomeHandles :
        Returns([NoCall EXCEPT !.fn = "nfs3_getattr", !.name = "NFS3-GETATTR",
                               !.handle_data = h],
                nfs3_getattr(h))

Call_nfs3_lookup ==
    \E h \in SomeHandles, f \in Strings :
        Returns([NoCall EXCEPT !.fn = "nfs3_lookup", !.name = "NFS3-LOOKUP",
                               !.handle_data = h, !.filename = f],
                nfs3_lookup(h, f))

Call_nfs3_access ==
    \E h \in SomeHandles, b \in {PyInt(63)} \cup Counts :
        Returns([NoCall EXCEPT !.fn = "nfs3_access", !.name = "NFS3-ACCESS",
                               !.handle_data = h, !.access_bits = b],
                nfs3_access(h, b))

Call_nfs3_read ==
    \E h \in SomeHandles, o \in Offsets, c \in Counts :
        Returns([NoCall EXCEPT !.fn = "nfs3_read", !.name = "NFS3-READ",
                               !.handle_data = h, !.offset = o, !.count = c],
                nfs3_read(h, o, c))

Call_nfs3_write ==
    \E h \in SomeHandles, o \in Offsets, c \in Counts,
       s \in {PyInt(FILE_SYNC), PyInt(UNSTABLE)}, d \in Datas :
        Returns([NoCall EXCEPT !.fn = "nfs3_write", !.name = "NFS3-WRITE",
                               !.handle_data = h, !.offset = o, !.count = c,
                               !.stable = s, !.data = d],
                nfs3_write(h, o, c, s, d))

\* None, or a verifier of 8 bytes
Cookieverfs == {None, Some(<<1, 2, 3, 4, 5, 6, 7, 8>>)}

\* two handles and two names for the calls with many arguments
TwoHandles == {None, Some(MkHandle(7, "zero"))}

TwoStrings == {<<97, 8364, 98>>, <<55296>>}

Call_nfs3_readdir ==
    \E h \in TwoHandles, k \in Offsets, v \in Cookieverfs, c \in Counts :
        Returns([NoCall EXCEPT !.fn = "nfs3_readdir", !.name = "NFS3-READDIR",
                               !.handle_data = h, !.cookie = k,
                               !.cookieverf = v, !.count = c],
                nfs3_readdir(h, k, v, c))

Call_nfs3_readdirplus ==
    \E h \in TwoHandles, k \in Offsets, v \in Cookieverfs,
       c \in {PyInt(4096), PyInt(-1)}, m \in {PyInt(8192), PyBig(FALSE, <<1, 0, 0, 0, 0>>)} :
        Returns([NoCall EXCEPT !.fn = "nfs3_readdirplus", !.name = "NFS3-READDIRPLUS",
                               !.handle_data = h, !.cookie = k, !.cookieverf = v,
                               !.dircount = c, !.maxcount = m],
                nfs3_readdirplus(h, k, v, c, m))

Call_nfs3_fsstat ==
    \E h \in SomeHandles :
        Returns([NoCall EXCEPT !.fn = "nfs3_fsstat", !.name = "NFS3-FSSTAT",
                               !.handle_data = h],
                nfs3_fsstat(h))

Call_nfs3_fsinfo ==
    \E h \in SomeHandles :
        Returns([NoCall EXCEPT !.fn = "nfs3_fsinfo", !.name = "NFS3-FSINFO",
                               !.handle_data = h],
                nfs3_fsinfo(h))

Call_nfs3_pathconf ==
    \E h \in SomeHandles :
        Returns([NoCall EXCEPT !.fn = "nfs3_pathconf", !.name = "NFS3-PATHCONF",
                               !.handle_data = h],
                nfs3_pathconf(h))

Call_nfs3_commit ==
    \E h \in TwoHandles, o \in Offsets, c \in Counts :
        Returns([NoCall EXCEPT !.fn = "nfs3_commit", !.name = "NFS3-COMMIT",
                               !.handle_data = h, !.offset = o, !.count = c],
                nfs3_commit(h, o, c))

Call_nfs3_create ==
    \E h \in SomeHandles, f \in Strings \cup {STR_newfile},
       m \in {PyInt(UNCHECKED), PyInt(2), PyInt(-1)} :
        Returns([NoCall EXCEPT !.fn = "nfs3_create", !.name = "NFS3-CREATE",
                               !.handle_data = h, !.filename = f, !.create_mode = m],
                nfs3_create(h, f, m))

Call_nfs3_remove ==
    \E h \in SomeHandles, f \in Strings :
        Returns([NoCall EXCEPT !.fn = "nfs3_remove", !.name = "NFS3-REMOVE",
                               !.handle_data = h, !.filename = f],
                nfs3_remove(h, f))

Call_nfs3_mkdir ==
    \E h \in SomeHandles, f \in Strings \cup {STR_newdir} :
        Returns([NoCall EXCEPT !.fn = "nfs3_mkdir", !.name = "NFS3-MKDIR",
                               !.handle_data = h, !.filename = f],
                nfs3_mkdir(h, f))

Call_nfs3_rmdir ==
    \E h \in SomeHandles, f \in Strings \cup {STR_testdir} :
        Returns([NoCall EXCEPT !.fn = "nfs3_rmdir", !.name = "NFS3-RMDIR",
                               !.handle_data = h, !.filename = f],
                nfs3_rmdir(h, f))

Call_nfs3_rename ==
    \E h \in TwoHandles, f \in TwoStrings \cup {STR_oldname},
       g \in TwoHandles, t \in TwoStrings \cup {STR_newname} :
        Returns([NoCall EXCEPT !.fn = "nfs3_rename", !.name = "NFS3-RENAME",
                               !.handle_data = h, !.filename = f,
                               !.to_dir_handle = g, !.to_name = t],
                nfs3_rename(h, f, g, t))

Call_nfs3_readlink ==
    \E h \in SomeHandles :
        Returns([NoCall EXCEPT !.fn = "nfs3_readlink", !.name = "NFS3-READLINK",
                               !.handle_data = h],
                nfs3_readlink(h))

Call_get_all_nfs3_requests ==
    Returns([NoCall EXCEPT !.fn = "get_all_nfs3_requests"], get_all_nfs3_requests)

Call_rpc_call_block ==
    \E a \in {"none", "sys"}, x \in {PyInt(1), PyInt(7)} :
        Returns([NoCall EXCEPT !.fn = "rpc_call_block", !.name = "CALL",
                               !.auth_type = a, !.xid = x],
                rpc_call_block("CALL", PyInt(PROG_NFS), PyInt(NFS_V3),
                               PyInt(NFSPROC3_GETATTR),
                               <<fhandle3("CALL_object", None)>>, a, x))

\* the names a caller may give to the record mark it places itself: the
\* block rpc_call_block("CALL", ...) creates, and names of no block
MarkTargets == {"CALL_rpc_message", "BODY_rpc_message", "CALL_xid_message"}

\* A caller assembles its own Request: a record mark of its own, followed
\* by the message block of rpc_call_block (the tuple is made for embedding).
\* Request.__init__ registers the children; it looks up no Size target.
Call_Request ==
    \E b \in MarkTargets, a \in {"none", "sys"} :
        Returns([NoCall EXCEPT !.fn = "Request", !.name = "COMPOUND",
                               !.auth_type = a, !.block_name = b],
                Request("COMPOUND",
                        <<tcp_record_mark(b, "COMPOUND_record_mark")>>
                        \o Tail(rpc_call_block("CALL", PyInt(PROG_NFS), PyInt(NFS_V3),
                                               PyInt(NFSPROC3_GETATTR),
                                               <<fhandle3("CALL_object", None)>>,
                                               a, PyInt(1)).children)))

\* Size.render of a Size primitive whose target block renders to L bytes
SizeRender ==
    \E L \in BlockLengths :
        /\ pc = "built"
        /\ tree.kind = "Size"
        /\ out' = render_int(ApplyMath(tree.math, PyInt(L)), tree.width, tree.endian)
        /\ call' = [call EXCEPT !.n = L]
        /\ pc' = "rendered"
        /\ UNCHANGED <<tree, err, ret, main, rs, fz, pair>>

HasSize(n) == \E i \in 1..Len(Nodes(n)) : Nodes(n)[i].kind = "Size"

\* render() of a request, or of a block or tuple of primitives that needs
\* no name resolution
RenderTree ==
    /\ pc = "built"
    /\ tree.kind = "Request" \/ ~HasSize(tree)
    /\ IF SizesResolve(tree)
       THEN out' = Render(tree, tree) /\ pc' = "rendered" /\ err' = "none"
       ELSE out' = <<>> /\ pc' = "raised" /\ err' = "BoofuzzNameResolutionError"
    /\ UNCHANGED <<call, tree, ret, main, rs, fz, pair>>

\* the caller drops the result
Discard ==
    /\ pc # "idle"
    /\ pc' = "idle"
    /\ call' = NoCall
    /\ tree' = NoNode
    /\ out' = <<>>
    /\ err' = "none"
    /\ ret' = 0
    /\ UNCHANGED <<main, rs, fz, pair>>

Next ==
    \/ Call_xdr_pad_length
    \/ Call_tcp_record_mark
    \/ Call_auth_none
    \/ Call_auth_sys_block
    \/ Call_fhandle3
    \/ Call_filename3
    \/ Call_dirop3
    \/ Call_rpc_call_request
    \/ Call_nfs3_null
    \/ Call_nfs3_getattr
    \/ Call_nfs3_lookup
    \/ Call_nfs3_access
    \/ Call_nfs3_read
    \/ Call_nfs3_write
    \/ Call_nfs3_readdir
    \/ Call_nfs3_readdirplus
    \/ Call_nfs3_fsstat
    \/ Call_nfs3_fsinfo
    \/ Call_nfs3_pathconf
    \/ Call_nfs3_commit
    \/ Call_nfs3_create
    \/ Call_nfs3_remove
    \/ Call_nfs3_mkdir
    \/ Call_nfs3_rmdir
    \/ Call_nfs3_rename
    \/ Call_nfs3_readlink
    \/ Call_get_all_nfs3_requests
    \/ Call_rpc_call_block
    \/ Call_Request
    \/ SizeRender
    \/ RenderTree
    \/ Discard

Spec == Init /\ [][Next]_vars

TypeOK ==
    /\ pc \in {"idle", "built", "rendered", "raised", "returned"}
    /\ \A i \in 1..Len(out) : out[i] \in 0..255

---------------------------------------------------------------------------
(* src/examples/nfs3.py: main().  A str is a sequence of one-character    *)
(* strings; a procedure name that has been normalised is a string.        *)

\* str.split(sep)
RECURSIVE split(_, _)
split(s, sep) ==
    IF \A i \in 1..Len(s) : s[i] # sep THEN <<s>>
    ELSE LET k == CHOOSE i \in 1..Len(s) :
                      s[i] = sep /\ \A j \in 1..(i - 1) : s[j] # sep
         IN  <<SubSeq(s, 1, k - 1)>> \o split(SubSeq(s, k + 1, Len(s)), sep)

IsSpace(ch) == ch \in {" ", "\t", "\n", "\r"}

RECURSIVE lstrip(_)
lstrip(s) == IF s # <<>> /\ IsSpace(Head(s)) THEN lstrip(Tail(s)) ELSE s

RECURSIVE rstrip(_)
rstrip(s) ==
    IF s # <<>> /\ IsSpace(s[Len(s)]) THEN rstrip(SubSeq(s, 1, Len(s) - 1)) ELSE s

\* str.strip()
strip(s) == rstrip(lstrip(s))

upper_char(ch) ==
    CASE ch = "a" -> "A" [] ch = "b" -> "B" [] ch = "c" -> "C" [] ch = "d" -> "D"
      [] ch = "e" -> "E" [] ch = "f" -> "F" [] ch = "g" -> "G" [] ch = "h" -> "H"
      [] ch = "i" -> "I" [] ch = "j" -> "J" [] ch = "k" -> "K" [] ch = "l" -> "L"
      [] ch = "m" -> "M" [] ch = "n" -> "N" [] ch = "o" -> "O" [] ch = "p" -> "P"
      [] ch = "q" -> "Q" [] ch = "r" -> "R" [] ch = "s" -> "S" [] ch = "t" -> "T"
      [] ch = "u" -> "U" [] ch = "v" -> "V" [] ch = "w" -> "W" [] ch = "x" -> "X"
      [] ch = "y" -> "Y" [] ch = "z" -> "Z" [] OTHER -> ch

\* str.upper()
upper(s) == [i \in 1..Len(s) |-> upper_char(s[i])]

\* the characters as one string
RECURSIVE Str(_)
Str(s) == IF s = <<>> THEN "" ELSE Head(s) \o Str(Tail(s))

\* [p.strip().upper() for p in args.procedures.split(",")]
requested_names(procedures) ==
    LET ps == split(procedures, ",")
    IN  [i \in 1..Len(ps) |-> Str(upper(strip(ps[i])))]

\* the values of --procedures tried: absent, empty, and the texts
\* "NULL,GETATTR", " null , LookUp ", "BOGUS", "NULL,bogus,READ",
\* "read,,write", "commit", "<TAB>fsinfo"
ProcedureArgs ==
    { None, Some(<<>>),
      Some(<<"N", "U", "L", "L", ",", "G", "E", "T", "A", "T", "T", "R">>),
      Some(<<" ", "n", "u", "l", "l", " ", ",", " ", "L", "o", "o", "k", "U", "p", " ">>),
      Some(<<"B", "O", "G", "U", "S">>),
      Some(<<"N", "U", "L", "L", ",", "b", "o", "g", "u", "s", ",", "R", "E", "A", "D">>),
      Some(<<"r", "e", "a", "d", ",", ",", "w", "r", "i", "t", "e">>),
      Some(<<"c", "o", "m", "m", "i", "t">>),
      Some(<<"\t", "f", "s", "i", "n", "f", "o">>) }

\* args = parser.parse_args()
parse_args ==
    \E a \in BOOLEAN, p \in ProcedureArgs, t \in BOOLEAN :
        /\ main.pc = "start"
        /\ main' = [main EXCEPT !.pc = "parsed",
                                !.args = [all_procedures |-> a, procedures |-> p,
                                          test_connection |-> t]]
        /\ UNCHANGED <<pc, call, tree, out, err, ret, rs, fz, pair>>

\* the names of --procedures taken as they are, without the validation loop
determine_procedures_NoValidation ==
    /\ main.pc = "parsed"
    /\ IF main.args.all_procedures
       THEN main' = [main EXCEPT !.pc = "named", !.procedure_names = PROCEDURE_KEYS]
       ELSE IF main.args.procedures.some /\ main.args.procedures.v # <<>>
       THEN main' = [main EXCEPT !.pc = "named",
                        !.procedure_names = requested_names(main.args.procedures.v)]
       ELSE main' = [main EXCEPT !.pc = "named",
                                 !.procedure_names = DEFAULT_PROCEDURES]
    /\ UNCHANGED <<pc, call, tree, out, err, ret, rs, fz, pair>>

\* "Determine which procedures to fuzz": the names are taken from
\* --all-procedures, else from a non-empty --procedures (validated: the
\* first unknown name ends the program through parser.error), else from
\* DEFAULT_PROCEDURES
determine_procedures ==
    /\ main.pc = "parsed"
    /\ IF main.args.all_procedures
       THEN main' = [main EXCEPT !.pc = "named", !.procedure_names = PROCEDURE_KEYS]
       ELSE IF main.args.procedures.some /\ main.args.procedures.v # <<>>
       THEN LET names == requested_names(main.args.procedures.v)
                bad == {i \in 1..Len(names) : names[i] \notin Range(PROCEDURE_KEYS)}
            IN  IF bad # {}
                THEN main' = [main EXCEPT
                                 !.pc = "exited", !.procedure_names = names,
                                 !.exit = "parser.error",
                                 !.message = "Unknown procedure: "
                                     \o names[CHOOSE i \in bad : \A j \in bad : i <= j]]
                ELSE main' = [main EXCEPT !.pc = "named", !.procedure_names = names]
       ELSE main' = [main EXCEPT !.pc = "named",
                                 !.procedure_names = DEFAULT_PROCEDURES]
    /\ UNCHANGED <<pc, call, tree, out, err, ret, rs, fz, pair>>

\* target = Target(connection=TCPSocketConnection(...))
create_target ==
    /\ main.pc = "named"
    /\ main' = [main EXCEPT !.pc = "target", !.target = TRUE]
    /\ UNCHANGED <<pc, call, tree, out, err, ret, rs, fz, pair>>

\* session = Session(**session_kwargs); requests = []
create_session ==
    /\ main.pc = "target"
    /\ main' = [main EXCEPT !.pc = "register", !.session = TRUE, !.requests = <<>>]
    /\ UNCHANGED <<pc, call, tree, out, err, ret, rs, fz, pair>>

\* one turn of "for name in procedure_names": the lookup PROCEDURES[name]
\* (a KeyError for a name that is no key), the call, the append
register_procedure ==
    /\ main.pc = "register"
    /\ Len(main.looked) < Len(main.procedure_names)
    /\ LET name == main.procedure_names[Len(main.looked) + 1]
       IN  IF name \in Range(PROCEDURE_KEYS)
           THEN main' = [main EXCEPT !.looked = Append(@, name),
                                     !.requests = Append(@, PROCEDURES(name))]
           ELSE main' = [main EXCEPT !.looked = Append(@, name),
                                     !.pc = "exited", !.exit = "KeyError"]
    /\ UNCHANGED <<pc, call, tree, out, err, ret, rs, fz, pair>>

\* for req in requests: session.connect(req)
connect_requests ==
    /\ main.pc = "register"
    /\ Len(main.looked) = Len(main.procedure_names)
    /\ main' = [main EXCEPT !.pc = "connected", !.connected = Len(main.requests)]
    /\ UNCHANGED <<pc, call, tree, out, err, ret, rs, fz, pair>>

\* if args.test_connection: render the NULL request, print it, return
test_connection ==
    /\ main.pc = "connected"
    /\ main.args.test_connection
    /\ main' = [main EXCEPT !.pc = "exited", !.exit = "return",
                            !.packet = Render(nfs3_null, nfs3_null)]
    /\ UNCHANGED <<pc, call, tree, out, err, ret, rs, fz, pair>>

\* session.fuzz()
session_fuzz ==
    /\ main.pc = "connected"
    /\ ~main.args.test_connection
    /\ main' = [main EXCEPT !.pc = "fuzzing", !.fuzzing = TRUE]
    /\ UNCHANGED <<pc, call, tree, out, err, ret, rs, fz, pair>>

\* session.fuzz() at work: the connection to the target is opened and a
\* test case of a registered request is sent on it (boofuzz; the bytes of
\* the unmutated request stand for the test case)
fuzz_send ==
    \E i \in 1..Len(main.requests) :
        /\ main.pc = "fuzzing"
        /\ Len(main.sent) < MaxSends
        /\ main' = [main EXCEPT !.sent =
                        Append(@, Render(main.requests[i], main.requests[i]))]
        /\ UNCHANGED <<pc, call, tree, out, err, ret, rs, fz, pair>>

\* session.fuzz() returns, or KeyboardInterrupt is caught
fuzz_ends ==
    /\ main.pc = "fuzzing"
    /\ main' = [main EXCEPT !.pc = "exited", !.exit = "return"]
    /\ UNCHANGED <<pc, call, tree, out, err, ret, rs, fz, pair>>

NextMain ==
    \/ parse_args
    \/ determine_procedures
    \/ create_target
    \/ create_session
    \/ register_procedure
    \/ connect_requests
    \/ test_connection
    \/ session_fuzz
    \/ fuzz_send
    \/ fuzz_ends

SpecMain == Init /\ [][NextMain]_vars

---------------------------------------------------------------------------
(* Request.render(), step by step (boofuzz).  A frame is one call of      *)
(* get_child_data on a container: the children rendered so far and their  *)
(* bytes.  A Size renders by resolving its target by name and rendering it *)
(* in a nested call, whose bytes are measured and dropped.                 *)

\* a call rendering the children of node; size is the Size primitive the
\* bytes are measured for (NoNode: the bytes go to the caller's output)
Frame(node, size) == [node |-> node, i |-> 1, acc |-> <<>>, size |-> size]

Top == rs.stack[Len(rs.stack)]

\* the stack with its top frame replaced
WithTop(f) == [rs.stack EXCEPT ![Len(rs.stack)] = f]

\* the stack after the top frame returned bytes to its caller
Returned(bytes) ==
    LET below == SubSeq(rs.stack, 1, Len(rs.stack) - 1)
        k == Len(below)
    IN  [below EXCEPT ![k] = [@ EXCEPT !.acc = @ \o bytes, !.i = @ + 1]]

\* the loop over the children has rendered every child
Complete(f) == f.i > Len(f.node.children)

\* the length taken as soon as the first child of the target is rendered
TargetRendered_FirstChild(f) == f.i > 1
\* the nested call rendering the target of a Size has returned
TargetRendered(f) == Complete(f)

\* the requests whose rendering is followed
RenderedRequests ==
    { nfs3_null, nfs3_lookup(None, STR_testfile),
      nfs3_write(Some(MkHandle(5, "zero")), PyInt(0), PyInt(3), PyInt(FILE_SYNC),
                 <<1, 2, 3>>),
      rpc_call_request("RPC-CALL", PyInt(PROG_MOUNT), PyInt(NFS_V3), PyInt(1),
                       <<fhandle3("RPC-CALL_fh", None)>>, "sys", PyInt(1)) }
    \cup
    { Request("COMPOUND",
              <<tcp_record_mark(b, "COMPOUND_record_mark")>>
              \o Tail(rpc_call_block("CALL", PyInt(PROG_NFS), PyInt(NFS_V3),
                                     PyInt(NFSPROC3_GETATTR),
                                     <<fhandle3("CALL_object", None)>>,
                                     "none", PyInt(1)).children))
      : b \in {"CALL_rpc_message", "BODY_rpc_message"} }

\* request.render()
start_render ==
    \E t \in RenderedRequests :
        /\ rs.pc = "idle"
        /\ rs' = [RenderIdle EXCEPT !.pc = "running", !.root = t,
                                    !.stack = <<Frame(t, NoNode)>>]
        /\ UNCHANGED <<pc, call, tree, out, err, ret, main, fz, pair>>

\* the next child is a DWord, QWord, Bytes or Static: its bytes are appended
render_leaf ==
    /\ rs.pc = "running"
    /\ ~Complete(Top)
    /\ LET c == Top.node.children[Top.i]
       IN  /\ c.kind \in {"DWord", "QWord", "Bytes", "Static"}
           /\ rs' = [rs EXCEPT !.stack =
                        WithTop([Top EXCEPT !.acc = @ \o Render(c, rs.root),
                                            !.i = @ + 1])]
    /\ UNCHANGED <<pc, call, tree, out, err, ret, main, fz, pair>>

\* the next child is a Block: a nested call renders its children
enter_block ==
    /\ rs.pc = "running"
    /\ ~Complete(Top)
    /\ LET c == Top.node.children[Top.i]
       IN  /\ c.kind = "Block"
           /\ rs' = [rs EXCEPT !.stack = Append(@, Frame(c, NoNode))]
    /\ UNCHANGED <<pc, call, tree, out, err, ret, main, fz, pair>>

\* the nested call of a Block returns its bytes
leave_block ==
    /\ rs.pc = "running"
    /\ Len(rs.stack) > 1
    /\ Complete(Top)
    /\ Top.size = NoNode
    /\ rs' = [rs EXCEPT !.stack = Returned(Top.acc)]
    /\ UNCHANGED <<pc, call, tree, out, err, ret, main, fz, pair>>

\* the next child is a Size: its target is resolved by name (an error if
\* no node has the name) and rendered in a nested call
measure_target ==
    /\ rs.pc = "running"
    /\ ~Complete(Top)
    /\ LET c == Top.node.children[Top.i]
       IN  /\ c.kind = "Size"
           /\ IF CanResolve(rs.root, c.block_name)
              THEN rs' = [rs EXCEPT !.stack =
                               Append(@, Frame(Resolve(rs.root, c.block_name), c))]
              ELSE rs' = [rs EXCEPT !.pc = "raised"]
    /\ UNCHANGED <<pc, call, tree, out, err, ret, main, fz, pair>>

\* the nested call of a Size returns: the length of its bytes, through the
\* math of the Size, is encoded at the width of the Size
encode_size ==
    /\ rs.pc = "running"
    /\ Len(rs.stack) > 1
    /\ TargetRendered(Top)
    /\ Top.size # NoNode
    /\ LET s == Top.size
           bytes == render_int(ApplyMath(s.math, PyInt(Len(Top.acc))),
                               s.width, s.endian)
       IN  rs' = [rs EXCEPT
                    !.stack = Returned(bytes),
                    !.sized = Append(@, [name |-> s.name, target |-> Top.node.name,
                                         seen |-> Top.i - 1,
                                         of |-> Len(Top.node.children),
                                         length |-> Len(Top.acc), bytes |-> bytes,
                                         math |-> s.math,
                                         emitted |-> Len(rs.stack[1].acc)])]
    /\ UNCHANGED <<pc, call, tree, out, err, ret, main, fz, pair>>

\* the outermost call returns the bytes of the request
finish_render ==
    /\ rs.pc = "running"
    /\ Len(rs.stack) = 1
    /\ Complete(Top)
    /\ rs' = [rs EXCEPT !.pc = "done", !.out = Top.acc, !.stack = <<>>]
    /\ UNCHANGED <<pc, call, tree, out, err, ret, main, fz, pair>>

NextRender ==
    \/ start_render
    \/ render_leaf
    \/ enter_block
    \/ leave_block
    \/ measure_target
    \/ encode_size
    \/ finish_render

SpecRender == Init /\ [][NextRender]_vars

---------------------------------------------------------------------------
(* session.fuzz() (boofuzz): each test case renders a registered request  *)
(* under a mutation context, which names one primitive and gives the      *)
(* value to render in place of its default.  The tree is not changed.     *)

\* a mutation: the primitive named, and the value: an int for a bit
\* field or a Size, bytes for a Bytes or a Static
Mutation(name, value, bytes) == [name |-> name, value |-> value, bytes |-> bytes]

IsMutated(n, m) == m.some /\ m.v.name = n.name

RECURSIVE RenderM(_, _, _)
RECURSIVE RenderSeqM(_, _, _)

\* the length measured on the target as rendered without the mutation
calculated_length_Unmutated(n, root, m) ==
    Len(Render(Resolve(root, n.block_name), root))
\* Size._calculated_length: the length of the target rendered under the
\* same mutation context
calculated_length(n, root, m) ==
    Len(RenderM(Resolve(root, n.block_name), root, m))

\* any mutation in the context taken for the fuzz value of the Size
size_value_AnyMutation(n, root, m) ==
    IF m.some THEN m.v.value
    ELSE ApplyMath(n.math, PyInt(calculated_length(n, root, m)))
\* the value a Size encodes: its own fuzz value when it is the primitive
\* mutated, else the math of the calculated length
size_value(n, root, m) ==
    IF IsMutated(n, m) THEN m.v.value
    ELSE ApplyMath(n.math, PyInt(calculated_length(n, root, m)))

\* render(mutation_context)
RenderM(n, root, m) ==
    IF n.kind \in {"DWord", "QWord"}
    THEN render_int(IF IsMutated(n, m) THEN m.v.value ELSE n.default_value,
                    n.width, n.endian)
    ELSE IF n.kind \in {"Bytes", "Static"}
    THEN (IF IsMutated(n, m) THEN m.v.bytes ELSE n.default_bytes)
    ELSE IF n.kind = "Size"
    THEN render_int(size_value(n, root, m), n.width, n.endian)
    ELSE RenderSeqM(n.children, root, m)
RenderSeqM(cs, root, m) ==
    IF Len(cs) = 0 THEN <<>>
    ELSE RenderM(Head(cs), root, m) \o RenderSeqM(Tail(cs), root, m)

\* the builder calls whose requests are fuzzed
FuzzCalls == {"null", "sys", "write"}

\* the k-th builder call of the process (k calls were made before it):
\* the builders read no state, so k is not used
BuildTree_XidCounter(c, k) ==
    CASE c = "null" -> nfs3_null
      [] c = "sys" ->
             rpc_call_request("RPC-CALL", PyInt(PROG_MOUNT), PyInt(NFS_V3), PyInt(1),
                              <<fhandle3("RPC-CALL_fh", None)>>, "sys", PyInt(k + 1))
      [] c = "write" ->
             nfs3_write(Some(MkHandle(5, "zero")), PyInt(0), PyInt(3),
                        PyInt(FILE_SYNC), <<1, 2, 3>>)
BuildTree(c, k) ==
    CASE c = "null" -> nfs3_null
      [] c = "sys" ->
             rpc_call_request("RPC-CALL", PyInt(PROG_MOUNT), PyInt(NFS_V3), PyInt(1),
                              <<fhandle3("RPC-CALL_fh", None)>>, "sys", PyInt(1))
      [] c = "write" ->
             nfs3_write(Some(MkHandle(5, "zero")), PyInt(0), PyInt(3),
                        PyInt(FILE_SYNC), <<1, 2, 3>>)

\* mutations tried: another value for a DWord, a fuzz value for a Size,
\* bytes of the same and of another length for a Bytes or a Static
MutationPool ==
    { Mutation("NFS3-NULL_xid", PyInt(7), <<>>),
      Mutation("RPC-CALL_xid", PyInt(7), <<>>),
      Mutation("RPC-CALL_auth_cred_length", PyInt(0), <<>>),
      Mutation("RPC-CALL_auth_machine", PyInt(0),
               <<104, 111, 115, 116, 110, 97, 109, 101, 49, 0, 0, 0>>),
      Mutation("RPC-CALL_fh_data", PyInt(0), <<1, 2, 3, 4>>),
      Mutation("NFS3-WRITE_record_mark", PyInt(65535), <<>>),
      Mutation("NFS3-WRITE_data", PyInt(0), <<4, 5, 6, 7>>),
      Mutation("NFS3-WRITE_data", PyInt(0), <<1, 2, 3, 4, 5, 6, 7, 8>>) }

\* the mutations of the pool that name a primitive of the tree
Mutations(root) == {mu \in MutationPool : Named(root, mu.name) # {}}

\* a builder is called and its request registered
fuzz_build ==
    \E c \in FuzzCalls :
        /\ fz.nbuilt < MaxBuilds
        /\ fz' = [fz EXCEPT !.pc = "built", !.call = c,
                            !.tree = BuildTree(c, fz.nbuilt),
                            !.nbuilt = @ + 1, !.m = None]
        /\ UNCHANGED <<pc, call, tree, out, err, ret, main, rs, pair>>

\* the next test case: a mutation of one primitive, or none
fuzz_mutate ==
    \E mu \in {None} \cup {Some(x) : x \in Mutations(fz.tree)} :
        /\ fz.pc \in {"built", "rendered"}
        /\ mu # fz.m
        /\ fz' = [fz EXCEPT !.pc = "mutated", !.m = mu]
        /\ UNCHANGED <<pc, call, tree, out, err, ret, main, rs, pair>>

\* the test case is rendered
fuzz_render ==
    /\ fz.pc \in {"built", "mutated", "rendered"}
    /\ fz' = [fz EXCEPT !.pc = "rendered",
                        !.prev = fz.last,
                        !.last = [has |-> TRUE, gen |-> fz.nbuilt, call |-> fz.call,
                                  m |-> fz.m,
                                  out |-> RenderM(fz.tree, fz.tree, fz.m)]]
    /\ UNCHANGED <<pc, call, tree, out, err, ret, main, rs, pair>>

NextFuzz ==
    \/ fuzz_build
    \/ fuzz_mutate
    \/ fuzz_render

SpecFuzz == Init /\ [][NextFuzz]_vars

---------------------------------------------------------------------------
(* Two trees in flight: two callers each call a builder and render what   *)
(* they got, their steps interleaved.  Every primitive a builder          *)
(* instantiates is a new Python object; objects are numbered as created.  *)

\* every call handing out the same objects (kept at module level)
alloc_Reused(next, n) == 1..n
\* the objects created by n constructor calls, next objects existing
alloc(next, n) == (next + 1)..(next + n)

\* caller k calls a builder
pair_build ==
    \E k \in 1..2, c \in FuzzCalls :
        /\ pair.slots[k].pc = "empty"
        /\ LET t == BuildTree(c, pair.ncalls)
               n == Len(Nodes(t))
           IN  pair' = [pair EXCEPT
                          !.slots[k] = [pc |-> "built", call |-> c, tree |-> t,
                                        ids |-> alloc(pair.next, n), out |-> <<>>],
                          !.next = @ + n,
                          !.ncalls = @ + 1,
                          !.log = Append(@, <<k, "build">>)]
        /\ UNCHANGED <<pc, call, tree, out, err, ret, main, rs, fz>>

\* caller k renders its tree
pair_render ==
    \E k \in 1..2 :
        /\ pair.slots[k].pc = "built"
        /\ pair' = [pair EXCEPT
                      !.slots[k].pc = "rendered",
                      !.slots[k].out = Render(pair.slots[k].tree, pair.slots[k].tree),
                      !.log = Append(@, <<k, "render">>)]
        /\ UNCHANGED <<pc, call, tree, out, err, ret, main, rs, fz>>

NextPair ==
    \/ pair_build
    \/ pair_render

SpecPair == Init /\ [][NextPair]_vars

---------------------------------------------------------------------------
(* What a receiver expects on the wire (RFC 4506), stated independently   *)
(* of the builders.                                                       *)

\* a natural below 2^32 as four big-endian bytes
BE4(n) ==
    <<(n \div 16777216) % 256, (n \div 65536) % 256, (n \div 256) % 256, n % 256>>

\* n rounded up to the next multiple of 4
RoundUp4(n) == ((n + 3) \div 4) * 4

\* XDR opaque<> / string<>: length, data, zero fill to a 4-byte boundary
OpaqueWire(b) == BE4(Len(b)) \o b \o Zeros(RoundUp4(Len(b)) - Len(b))

\* the handle a builder uses for its handle_data argument
EffHandle(h) == IF h.some THEN h.v ELSE DEFAULT_HANDLE

\* the rendered bytes of the node called lenName followed by the rendered
\* bytes of the node that follows it in the tree, which must be dataName
LengthThenData(root, lenName, dataName) ==
    LET ns == Nodes(root)
        i == CHOOSE j \in Named(root, lenName) : TRUE
    IN  IF Cardinality(Named(root, lenName)) = 1 /\ i < Len(ns)
           /\ ns[i + 1].name = dataName /\ ns[i].children = <<>>
        THEN Render(ns[i], root) \o Render(ns[i + 1], root)
        ELSE <<>>

\* the variable-length values of the tree a call built: the names of the
\* length node and of the data node, and the bytes the caller passed
OpaqueValues(c) ==
    LET H(p) == <<p \o "_length", p \o "_data", EffHandle(c.handle_data)>>
        F(p) == <<p \o "_length", p \o "_data", utf8_encode(c.filename)>>
    IN  IF c.fn = "fhandle3" THEN {H("fh")}
        ELSE IF c.fn = "filename3" THEN {F("fn")}
        ELSE IF c.fn = "dirop3" THEN {H("what_dir_handle"), F("what_name")}
        ELSE IF c.fn = "auth_sys_block"
             THEN {<<"auth_sys_machine_len", "auth_sys_machine", utf8_encode(c.machine_name)>>}
        ELSE IF c.fn = "rpc_call_request"
             THEN {H("RPC-CALL_fh")} \cup
                  (IF c.auth_type = "sys"
                   THEN {<<"RPC-CALL_auth_machine_len", "RPC-CALL_auth_machine",
                           utf8_encode(STR_fuzzer)>>}
                   ELSE {})
        ELSE IF c.fn = "nfs3_getattr" THEN {H("NFS3-GETATTR_fhandle")}
        ELSE IF c.fn = "nfs3_lookup"
             THEN {H("NFS3-LOOKUP_what_dir_handle"), F("NFS3-LOOKUP_what_name")}
        ELSE IF c.fn = "nfs3_access" THEN {H("NFS3-ACCESS_fhandle")}
        ELSE IF c.fn = "nfs3_read" THEN {H("NFS3-READ_fhandle")}
        ELSE IF c.fn = "nfs3_write"
             THEN {H("NFS3-WRITE_fhandle"),
                   <<"NFS3-WRITE_data_length", "NFS3-WRITE_data", c.data>>}
        ELSE IF c.fn = "nfs3_readdir" THEN {H("NFS3-READDIR_dir")}
        ELSE IF c.fn = "nfs3_readdirplus" THEN {H("NFS3-READDIRPLUS_dir")}
        ELSE IF c.fn = "nfs3_fsstat" THEN {H("NFS3-FSSTAT_fsroot")}
        ELSE IF c.fn = "nfs3_fsinfo" THEN {H("NFS3-FSINFO_fsroot")}
        ELSE IF c.fn = "nfs3_pathconf" THEN {H("NFS3-PATHCONF_object")}
        ELSE IF c.fn = "nfs3_commit" THEN {H("NFS3-COMMIT_fhandle")}
        ELSE IF c.fn = "nfs3_readlink" THEN {H("NFS3-READLINK_symlink")}
        ELSE IF c.fn = "nfs3_create"
             THEN {H("NFS3-CREATE_where_dir_handle"), F("NFS3-CREATE_where_name")}
        ELSE IF c.fn = "nfs3_remove"
             THEN {H("NFS3-REMOVE_object_dir_handle"), F("NFS3-REMOVE_object_name")}
        ELSE IF c.fn = "nfs3_mkdir"
             THEN {H("NFS3-MKDIR_where_dir_handle"), F("NFS3-MKDIR_where_name")}
        ELSE IF c.fn = "nfs3_rmdir"
             THEN {H("NFS3-RMDIR_object_dir_handle"), F("NFS3-RMDIR_object_name")}
        ELSE IF c.fn = "nfs3_rename"
             THEN {H("NFS3-RENAME_from_dir_handle"), F("NFS3-RENAME_from_name"),
                   <<"NFS3-RENAME_to_dir_handle_length", "NFS3-RENAME_to_dir_handle_data",
                     EffHandle(c.to_dir_handle)>>,
                   <<"NFS3-RENAME_to_name_length", "NFS3-RENAME_to_name_data",
                     utf8_encode(c.to_name)>>}
        ELSE {}

---------------------------------------------------------------------------
(* Claims *)

\* C1: every variable-length value a builder emits (file handle, file
\* name, write data, machine name) is its unpadded byte length as four
\* big-endian bytes, then the bytes, then zero bytes up to the next
\* multiple of 4; for a string the bytes are the UTF-8 encoding, so the
\* fill follows the byte length and not the number of characters.
C1_OpaqueEncoding ==
    pc \in {"built", "rendered"} =>
        \A v \in OpaqueValues(call) :
            /\ LengthThenData(tree, v[1], v[2]) = OpaqueWire(v[3])
            /\ Len(LengthThenData(tree, v[1], v[2])) % 4 = 0

\* a three-character name of five UTF-8 bytes, rendered with three fill bytes
C1_Witness ==
    /\ pc = "rendered"
    /\ call.fn = "filename3"
    /\ call.filename = <<97, 8364, 98>>
    /\ out = <<0, 0, 0, 5, 97, 226, 130, 172, 98, 0, 0, 0>>

\* C2: for every non-negative n, xdr_pad_length(n) is one of 0, 1, 2, 3
\* and n + xdr_pad_length(n) is a multiple of 4.
C2_PadLength ==
    (pc = "returned" /\ call.fn = "xdr_pad_length") =>
        (ret \in {0, 1, 2, 3} /\ (call.n + ret) % 4 = 0)

C2_Witness ==
    pc = "returned" /\ call.fn = "xdr_pad_length" /\ call.n = 5 /\ ret = 3

\* the rendered bytes of the one node of the tree called name
RenderNamed(root, name) == Render(Resolve(root, name), root)

\* 0x80000000 | L for L < 2^31 as four big-endian bytes
MarkWire(L) ==
    <<128 + (L \div 16777216), (L \div 65536) % 256, (L \div 256) % 256, L % 256>>

\* C3: for a body length L < 2^31 the record mark renders as the four
\* big-endian bytes of 0x80000000 | L, its high bit set; in a rendered
\* message L is the length of the <name>_rpc_message block alone, which
\* is everything after the four bytes of the mark.
C3_RecordMark ==
    /\ (pc = "rendered" /\ call.fn = "tcp_record_mark") =>
           (out = MarkWire(call.n) /\ out[1] >= 128)
    /\ (pc = "rendered" /\ tree.kind = "Request") =>
           LET body == RenderNamed(tree, tree.children[1].block_name)
           IN  /\ out = MarkWire(Len(body)) \o body
               /\ out[1] >= 128

\* the largest single-fragment length, 2^31 - 1
C3_Witness ==
    /\ pc = "rendered"
    /\ call.fn = "tcp_record_mark"
    /\ call.n = 2147483647
    /\ out = <<255, 255, 255, 255>>

\* C4: nfs3_null() rendered (transaction id 1) has an RPC body of 40
\* bytes, six header words and 16 bytes of AUTH_NONE, and starts with
\* the bytes 80 00 00 28.
C4_NullCall ==
    (pc = "rendered" /\ call.fn = "nfs3_null") =>
        /\ Len(RenderNamed(tree, "NFS3-NULL_rpc_message")) = 40
        /\ Len(out) = 44
        /\ SubSeq(out, 1, 4) = <<128, 0, 0, 40>>
        /\ SubSeq(out, 5, 8) = <<0, 0, 0, 1>>
        /\ SubSeq(out, 29, 44) = Zeros(16)

C4_Witness ==
    pc = "rendered" /\ call.fn = "nfs3_null" /\ Len(out) = 44 /\ out[4] = 40

\* C5: auth_none renders exactly 16 bytes for any name prefix: four
\* big-endian 32-bit fields, credential flavor 0 and length 0, verifier
\* flavor 0 and length 0.
C5_AuthNone ==
    (pc \in {"built", "rendered"} /\ call.fn = "auth_none") =>
        /\ Len(tree.children) = 4
        /\ \A i \in 1..Len(tree.children) :
               /\ tree.children[i].kind = "DWord"
               /\ tree.children[i].endian = "BIG_ENDIAN"
               /\ Render(tree.children[i], tree) = <<0, 0, 0, 0>>
        /\ <<tree.children[1].name, tree.children[2].name,
             tree.children[3].name, tree.children[4].name>>
             = <<call.name \o "_cred_flavor", call.name \o "_cred_length",
                 call.name \o "_verf_flavor", call.name \o "_verf_length">>
        /\ pc = "rendered" => out = Zeros(16)

C5_Witness ==
    pc = "rendered" /\ call.fn = "auth_none" /\ call.name = "x" /\ Len(out) = 16

\* C6: a dirop3 block renders the directory handle and then the name,
\* 4 + padded handle length + 4 + padded name byte length bytes in all;
\* with the 32-byte default handle and "testfile" the block of a lookup
\* is exactly 48 bytes.
C6_Dirop ==
    LET wire == OpaqueWire(EffHandle(call.handle_data))
                    \o OpaqueWire(utf8_encode(call.filename))
        size == 4 + RoundUp4(Len(EffHandle(call.handle_data)))
                  + 4 + RoundUp4(Len(utf8_encode(call.filename)))
    IN  /\ (pc = "rendered" /\ call.fn = "dirop3") =>
               (out = wire /\ Len(out) = size)
        /\ (pc = "rendered" /\ call.fn = "nfs3_lookup") =>
               LET what == RenderNamed(tree, "NFS3-LOOKUP_what")
               IN  /\ what = wire
                   /\ Len(what) = size
                   /\ SubSeq(out, Len(out) - size + 1, Len(out)) = what
                   /\ (EffHandle(call.handle_data) = DEFAULT_HANDLE
                         /\ call.filename = STR_testfile) => Len(what) = 48

C6_Witness ==
    /\ pc = "rendered"
    /\ call.fn = "nfs3_lookup"
    /\ ~call.handle_data.some
    /\ call.filename = STR_testfile
    /\ Len(RenderNamed(tree, "NFS3-LOOKUP_what")) = 48

\* a Python int that a field of the given number of bytes can hold
FitsIn(v, nbytes) == ~v.neg /\ Len(v.mag) <= nbytes

\* C7: nfs3_write does not compare count with the data: whatever the
\* count and the data, the call returns a request that renders, the
\* count field holds the caller's count (and renders as that count when
\* it is a uint32), and the data length prefix holds len(data).
C7_WriteCountIndependent ==
    call.fn = "nfs3_write" =>
        /\ pc \in {"built", "rendered"}
        /\ err = "none"
        /\ tree.kind = "Request" /\ SizesResolve(tree)
        /\ Resolve(tree, "NFS3-WRITE_count").default_value = call.count
        /\ RenderNamed(tree, "NFS3-WRITE_data_length") = BE4(Len(call.data))
        /\ pc = "rendered" =>
             LET off == 4 + 24 + 16 + 4 + RoundUp4(Len(EffHandle(call.handle_data))) + 8
                 tail == OpaqueWire(call.data)
             IN  /\ FitsIn(call.count, 4) =>
                        SubSeq(out, off + 1, off + 4) = LowBytes(call.count.mag, 4)
                 /\ Len(out) = off + 8 + Len(tail)
                 /\ SubSeq(out, off + 9, Len(out)) = tail

\* count = 10 with 7 bytes of data, rendered
C7_Witness ==
    /\ pc = "rendered"
    /\ call.fn = "nfs3_write"
    /\ call.count = PyInt(10)
    /\ Len(call.data) = 7
    /\ RenderNamed(tree, "NFS3-WRITE_count") = <<0, 0, 0, 10>>
    /\ RenderNamed(tree, "NFS3-WRITE_data_length") = <<0, 0, 0, 7>>

\* four big-endian bytes as a natural (below 2^31 here)
BEVal(b) == b[1] * 16777216 + b[2] * 65536 + b[3] * 256 + b[4]

\* decoding an XDR opaque: read the length prefix, take that many bytes
DecodeOpaque(b) == SubSeq(b, 5, 4 + BEVal(SubSeq(b, 1, 4)))

\* C8: a file handle of 0 to 64 bytes encoded by fhandle3 and decoded by
\* its length prefix gives back exactly the original bytes, whatever the
\* padding.
C8_HandleRoundTrip ==
    (pc = "rendered" /\ call.fn = "fhandle3"
       /\ Len(EffHandle(call.handle_data)) <= NFS3_FHSIZE) =>
        /\ Len(out) >= 4
        /\ 4 + BEVal(SubSeq(out, 1, 4)) <= Len(out)
        /\ DecodeOpaque(out) = EffHandle(call.handle_data)

\* a handle of 63 zero bytes, which the padding byte continues
C8_Witness ==
    /\ pc = "rendered"
    /\ call.fn = "fhandle3"
    /\ call.handle_data = Some(Zeros(63))
    /\ Len(out) = 68
    /\ out[68] = 0

\* C9 (as claimed): a file handle longer than 64 bytes, or a negative
\* count, is refused by the builder: no tree is returned for it.
C9_MalformedRejected ==
    ( \/ Len(EffHandle(call.handle_data)) > NFS3_FHSIZE
      \/ call.count.neg ) => pc \notin {"built", "rendered"}

\* C10 (as claimed): a value that does not fit the declared width of its
\* field (a uint32 of 2^32 or more, a uint64 of 2^64 or more) is refused
\* when the field is constructed: no tree holds such a field and no
\* rendered message carries the value reduced modulo 2^width.
C10_ValueOutOfRange ==
    pc \in {"built", "rendered"} =>
        \A i \in 1..Len(Nodes(tree)) :
            Nodes(tree)[i].kind \in {"DWord", "QWord"} =>
                Len(Nodes(tree)[i].default_value.mag) * 8 <= Nodes(tree)[i].width

\* RFC 1813: the procedure number of each procedure
RFC1813Number(k) ==
    CASE k = "NULL" -> 0 [] k = "GETATTR" -> 1 [] k = "LOOKUP" -> 3
      [] k = "ACCESS" -> 4 [] k = "READLINK" -> 5 [] k = "READ" -> 6
      [] k = "WRITE" -> 7 [] k = "CREATE" -> 8 [] k = "MKDIR" -> 9
      [] k = "REMOVE" -> 12 [] k = "RMDIR" -> 13 [] k = "RENAME" -> 14
      [] k = "READDIR" -> 16 [] k = "READDIRPLUS" -> 17 [] k = "FSSTAT" -> 18
      [] k = "FSINFO" -> 19 [] k = "PATHCONF" -> 20 [] k = "COMMIT" -> 21

\* the program, version and procedure words of a rendered call: bytes
\* 17..28, after the mark, the xid, the message type and the RPC version
ProgVersProc(bytes) == SubSeq(bytes, 17, 28)

\* C19: there are 18 procedure builders, one per key of PROCEDURES, and
\* get_all_nfs3_requests returns one request for each; each request
\* carries program 100003, version 3 and the RFC 1813 number of its
\* procedure, and no two requests share a name or a procedure number.
C19_EighteenProcedures ==
    /\ (pc = "built" /\ call.fn = "get_all_nfs3_requests") =>
        /\ Len(tree.children) = 18
        /\ Len(PROCEDURE_KEYS) = 18
        /\ Cardinality(Range(PROCEDURE_KEYS)) = 18
        /\ \A i \in 1..Len(tree.children) :
               /\ tree.children[i].kind = "Request"
               /\ \E k \in Range(PROCEDURE_KEYS) :
                      /\ tree.children[i].name = "NFS3-" \o k
                      /\ PROCEDURES(k) = tree.children[i]
                      /\ ProgVersProc(Render(tree.children[i], tree.children[i]))
                           = BE4(100003) \o BE4(3) \o BE4(RFC1813Number(k))
        /\ \A k \in Range(PROCEDURE_KEYS) :
               Cardinality({i \in 1..Len(tree.children) :
                               tree.children[i].name = "NFS3-" \o k}) = 1
        /\ \A i, j \in 1..Len(tree.children) :
               i # j =>
                 /\ tree.children[i].name # tree.children[j].name
                 /\ ProgVersProc(Render(tree.children[i], tree.children[i]))
                      # ProgVersProc(Render(tree.children[j], tree.children[j]))
    /\ \A k \in Range(PROCEDURE_KEYS) :
           (pc = "rendered" /\ tree.kind = "Request" /\ call.name = "NFS3-" \o k) =>
               ProgVersProc(out) = BE4(100003) \o BE4(3) \o BE4(RFC1813Number(k))

C19_Witness ==
    /\ pc = "built"
    /\ call.fn = "get_all_nfs3_requests"
    /\ Len(tree.children) = 18
    /\ tree.children[18].name = "NFS3-COMMIT"
    /\ ProgVersProc(Render(tree.children[18], tree.children[18]))
         = <<0, 1, 134, 163, 0, 0, 0, 3, 0, 0, 0, 21>>

\* C11: a Request whose tree holds a size reference to a block name that
\* is nowhere in the tree is never returned by the constructor: building
\* it raises (UnknownSizeTarget) before any render.
C11_UnknownSizeTargetAtConstruction ==
    (pc = "built" /\ tree.kind = "Request") => SizesResolve(tree)

\* the names of the six header fields of a call, in RFC 5531 order
HeaderNames(name) ==
    << name \o "_xid", name \o "_msg_type", name \o "_rpc_version",
       name \o "_program", name \o "_version", name \o "_procedure" >>

\* a magnitude of at most four bytes, as four bytes
Pad4(mag) == Zeros(4 - Len(mag)) \o mag

\* the rendered bytes of the leaves of a list of nodes, one after the other
RECURSIVE LeafBytes(_, _)
LeafBytes(ns, root) ==
    IF Len(ns) = 0 THEN <<>>
    ELSE (IF Head(ns).kind \in {"Block", "Request"} THEN <<>>
          ELSE Render(Head(ns), root))
         \o LeafBytes(Tail(ns), root)

\* where the arguments start in a rendered call (the authentication starts
\* at byte 29):
\* 4 bytes of mark and 24 of header come first; AUTH_NONE takes 16 bytes,
\* AUTH_SYS for "fuzzer" 8 + 28 + 8
ArgsStart(auth_type) == IF auth_type = "sys" THEN 73 ELSE 45

\* the arguments some builders list, as the receiver reads them
ArgsWire(c) ==
    IF c.fn \in {"rpc_call_request", "nfs3_getattr", "nfs3_fsstat", "nfs3_fsinfo",
                 "nfs3_pathconf", "nfs3_readlink"}
    THEN OpaqueWire(EffHandle(c.handle_data))
    ELSE IF c.fn \in {"nfs3_lookup", "nfs3_remove", "nfs3_rmdir"}
    THEN OpaqueWire(EffHandle(c.handle_data)) \o OpaqueWire(utf8_encode(c.filename))
    ELSE IF c.fn = "nfs3_rename"
    THEN OpaqueWire(EffHandle(c.handle_data)) \o OpaqueWire(utf8_encode(c.filename))
         \o OpaqueWire(EffHandle(c.to_dir_handle)) \o OpaqueWire(utf8_encode(c.to_name))
    ELSE <<>>

HasArgsWire(c) ==
    c.fn \in {"rpc_call_request", "nfs3_getattr", "nfs3_fsstat", "nfs3_fsinfo",
              "nfs3_pathconf", "nfs3_readlink", "nfs3_lookup", "nfs3_remove",
              "nfs3_rmdir", "nfs3_rename", "nfs3_null"}

\* C13: a message built by rpc_call_request renders in declaration order:
\* the record mark, then xid, msg_type 0, rpc_version 2, program, version,
\* procedure as big-endian uint32, then the authentication, then the
\* arguments in the order the builder listed them.
C13_DeclarationOrder ==
    (pc = "rendered" /\ tree.kind = "Request" /\ call.fn # "Request") =>
        LET body == tree.children[2] IN
        /\ Len(tree.children) = 2
        /\ tree.children[1].kind = "Size"
        /\ tree.children[1].name = call.name \o "_record_mark"
        /\ body.kind = "Block"
        /\ Len(body.children) >= 6
        /\ \A i \in 1..6 :
              /\ body.children[i].name = HeaderNames(call.name)[i]
              /\ body.children[i].kind = "DWord"
              /\ body.children[i].endian = "BIG_ENDIAN"
        /\ out = LeafBytes(Nodes(tree), tree)
        /\ SubSeq(out, 1, 4) = MarkWire(Len(out) - 4)
        /\ FitsIn(call.xid, 4) => SubSeq(out, 5, 8) = Pad4(call.xid.mag)
        /\ SubSeq(out, 9, 12) = BE4(0)
        /\ SubSeq(out, 13, 16) = BE4(2)
        /\ call.fn = "rpc_call_request" =>
               SubSeq(out, 17, 28) = BE4(100005) \o BE4(3) \o BE4(1)
        /\ IF call.auth_type = "sys"
           THEN SubSeq(out, 29, 32) = BE4(1)
           ELSE SubSeq(out, 29, 44) = Zeros(16)
        /\ HasArgsWire(call) =>
               SubSeq(out, ArgsStart(call.auth_type), Len(out)) = ArgsWire(call)

C13_Witness ==
    /\ pc = "rendered"
    /\ call.fn = "nfs3_rename"
    /\ call.handle_data # call.to_dir_handle
    /\ call.filename # call.to_name
    /\ Len(out) > 45 + 4 + 4 + 4 + 4
    /\ SubSeq(out, 9, 16) = <<0, 0, 0, 0, 0, 0, 0, 2>>
    /\ SubSeq(out, 25, 28) = <<0, 0, 0, 14>>

\* AUTH_SYS on the wire (RFC 5531): flavor 1, the length of the body, the
\* body (stamp, machine name, uid, gid, no auxiliary gids), and an
\* AUTH_NONE verifier
AuthSysWire(machine, uid, gid) ==
    BE4(1) \o BE4(20 + RoundUp4(Len(machine)))
    \o BE4(0) \o OpaqueWire(machine) \o Pad4(uid.mag) \o Pad4(gid.mag) \o BE4(0)
    \o BE4(0) \o BE4(0)

\* C20: the authentication is AUTH_NONE unless auth_type is "sys"; with
\* "sys" the message carries flavor 1, a cred_length equal to the rendered
\* length of the credential body, which is 20 plus the padded length of
\* the machine name, and then an AUTH_NONE verifier.
C20_AuthSelection ==
    /\ (pc = "rendered" /\ tree.kind = "Request" /\ call.fn # "Request"
        /\ call.auth_type # "sys") =>
           /\ SubSeq(out, 29, 44) = BE4(0) \o BE4(0) \o BE4(0) \o BE4(0)
           /\ \A i \in 1..Len(Nodes(tree)) :
                  Nodes(tree)[i].name # call.name \o "_auth_cred_body"
    /\ (pc = "rendered" /\ call.fn = "rpc_call_request" /\ call.auth_type = "sys") =>
           /\ SubSeq(out, 29, 72) = AuthSysWire(utf8_encode(STR_fuzzer), PyInt(0), PyInt(0))
           /\ BEVal(SubSeq(out, 33, 36)) = Len(RenderNamed(tree, "RPC-CALL_auth_cred_body"))
           /\ BEVal(SubSeq(out, 33, 36)) = 28
    /\ (pc = "built" /\ call.fn = "auth_sys_block") =>
           LET r == Render(tree, tree)
               m == utf8_encode(call.machine_name)
           IN  /\ r = AuthSysWire(m, call.uid, call.gid)
               /\ BEVal(SubSeq(r, 5, 8)) = Len(RenderNamed(tree, "auth_sys_cred_body"))
               /\ BEVal(SubSeq(r, 5, 8)) = 20 + RoundUp4(Len(m))
               /\ SubSeq(r, Len(r) - 7, Len(r)) = BE4(0) \o BE4(0)

C20_Witness ==
    /\ pc = "rendered"
    /\ call.fn = "rpc_call_request"
    /\ call.auth_type = "sys"
    /\ SubSeq(out, 29, 36) = <<0, 0, 0, 1, 0, 0, 0, 28>>
    /\ SubSeq(out, 41, 52) = <<0, 0, 0, 6, 102, 117, 122, 122, 101, 114, 0, 0>>
    /\ SubSeq(out, 65, 72) = Zeros(8)

\* what each --procedures text asks for: the names after strip and upper,
\* and the first of them that is not registered ("-" when all are)
RequestedByText(text) ==
    CASE text = "NULL,GETATTR" -> [names |-> <<"NULL", "GETATTR">>, unknown |-> "-"]
      [] text = " null , LookUp " -> [names |-> <<"NULL", "LOOKUP">>, unknown |-> "-"]
      [] text = "BOGUS" -> [names |-> <<"BOGUS">>, unknown |-> "BOGUS"]
      [] text = "NULL,bogus,READ" ->
             [names |-> <<"NULL", "BOGUS", "READ">>, unknown |-> "BOGUS"]
      [] text = "read,,write" -> [names |-> <<"READ", "", "WRITE">>, unknown |-> ""]
      [] text = "commit" -> [names |-> <<"COMMIT">>, unknown |-> "-"]
      [] text = "\tfsinfo" -> [names |-> <<"FSINFO">>, unknown |-> "-"]

\* the 18 registered tokens
RegisteredTokens ==
    {"NULL", "GETATTR", "LOOKUP", "ACCESS", "READLINK", "READ", "WRITE", "CREATE",
     "MKDIR", "REMOVE", "RMDIR", "RENAME", "READDIR", "READDIRPLUS", "FSSTAT",
     "FSINFO", "PATHCONF", "COMMIT"}

\* the --procedures list is the one main() uses
ListInEffect ==
    /\ main.pc \notin {"start", "parsed"}
    /\ ~main.args.all_procedures
    /\ main.args.procedures.some
    /\ main.args.procedures.v # <<>>

SizeNames(root) ==
    {Nodes(root)[i].name : i \in {j \in 1..Len(Nodes(root)) : Nodes(root)[j].kind = "Size"}}

Targets(r, name) == r.m.some /\ r.m.v.name = name

\* the name of the request a builder call of the fuzzing run builds
RequestName(c) ==
    CASE c = "null" -> "NFS3-NULL" [] c = "sys" -> "RPC-CALL" [] c = "write" -> "NFS3-WRITE"

\* in a rendered AUTH_SYS call: the length of the bytes that follow the
\* credential body (the verifier and the handle argument of 32 bytes, or
\* the bytes the mutation put in place of the handle)
AfterCredBody(r) ==
    8 + 4 + (IF Targets(r, "RPC-CALL_fh_data") THEN Len(r.m.v.bytes) ELSE 32)

\* the size fields of a render agree with the lengths in that render
SizesMatch(r) ==
    /\ ~Targets(r, RequestName(r.call) \o "_record_mark") =>
           SubSeq(r.out, 1, 4) = MarkWire(Len(r.out) - 4)
    /\ (r.call = "sys" /\ ~Targets(r, "RPC-CALL_auth_cred_length")) =>
           BEVal(SubSeq(r.out, 33, 36)) = Len(r.out) - 36 - AfterCredBody(r)

Containers(root) ==
    {i \in 1..Len(Nodes(root)) : Nodes(root)[i].kind \in {"Block", "Request"}}

\* the mutation of a render names a Size of the tree
TargetsSize(r, root) == r.m.some /\ r.m.v.name \in SizeNames(root)

Alone(c) ==
    CASE c = "null" -> nfs3_null
      [] c = "sys" ->
             rpc_call_request("RPC-CALL", PyInt(PROG_MOUNT), PyInt(NFS_V3), PyInt(1),
                              <<fhandle3("RPC-CALL_fh", None)>>, "sys", PyInt(1))
      [] c = "write" ->
             nfs3_write(Some(MkHandle(5, "zero")), PyInt(0), PyInt(3),
                        PyInt(FILE_SYNC), <<1, 2, 3>>)

C21_TestConnectionSendsNull ==
    (main.args.test_connection /\ main.pc = "exited" /\ main.exit = "return") =>
        /\ \E i \in 1..Len(main.sent) : main.sent[i] = Render(nfs3_null, nfs3_null)
        /\ ~main.fuzzing

\* no two nodes of the tree have the same name
NamesDistinct(root) ==
    \A i, j \in 1..Len(Nodes(root)) :
        i # j => Nodes(root)[i].name # Nodes(root)[j].name

\* every size field of the tree is the record mark over <name>_rpc_message
\* or the cred_length over <name>_auth_cred_body, and its target is the
\* one container of that name, which does not contain the size field
SizeTargetsSound(root) ==
    \A i \in 1..Len(Nodes(root)) :
        LET s == Nodes(root)[i] IN
        s.kind = "Size" =>
            /\ \/ /\ s.name = root.name \o "_record_mark"
                  /\ s.block_name = root.name \o "_rpc_message"
               \/ /\ s.name = root.name \o "_auth_cred_length"
                  /\ s.block_name = root.name \o "_auth_cred_body"
            /\ Cardinality({j \in 1..Len(Nodes(root)) :
                               Nodes(root)[j].name = s.block_name}) = 1
            /\ \A j \in 1..Len(Nodes(root)) :
                   Nodes(root)[j].name = s.block_name =>
                       /\ Nodes(root)[j].kind = "Block"
                       /\ \A k \in 1..Len(Nodes(Nodes(root)[j])) :
                              Nodes(Nodes(root)[j])[k].name # s.name

\* C22: in every message a builder returns, with AUTH_NONE or AUTH_SYS,
\* the names of the nodes are pairwise distinct, and every size reference
\* names exactly one container of the same tree, which is not an ancestor
\* of the size field.
C22_NamesAndTargets ==
    /\ (pc \in {"built", "rendered"} /\ tree.kind = "Request" /\ call.fn # "Request") =>
           NamesDistinct(tree) /\ SizeTargetsSound(tree)
    /\ (pc = "built" /\ call.fn = "get_all_nfs3_requests") =>
           \A i \in 1..Len(tree.children) :
               NamesDistinct(tree.children[i]) /\ SizeTargetsSound(tree.children[i])

C22_Witness ==
    /\ pc = "built"
    /\ call.fn = "nfs3_rename"
    /\ Named(tree, "NFS3-RENAME_from_dir_handle_data") # {}
    /\ Named(tree, "NFS3-RENAME_to_dir_handle_data") # {}
    /\ Named(tree, "NFS3-RENAME_from_name_data") # {}
    /\ Named(tree, "NFS3-RENAME_to_name_data") # {}
    /\ Len(Nodes(tree)) = 27

====
